---- MODULE Spec2Model ----
(***************************************************************************)
(* Lifecycle bridge of libretro-rs.                                        *)
(*                                                                         *)
(* The repository holds two generations of the glue layer between a core   *)
(* and the libretro API:                                                   *)
(*   RetroInstance<T: RetroCore>   src/libretro-rs/src/lib.rs              *)
(*   Instance<T: Core>             src/libretro-rs/src/retro/mod.rs        *)
(* A plugin is built with one of them; `bridge` says which.  Every entry   *)
(* point is one action.  A Rust panic (unwrap/expect on None) leaves the   *)
(* fields as they were written up to the panic and is recorded in `last`.  *)
(***************************************************************************)
EXTENDS Naturals, Sequences, FiniteSets

VARIABLES
  bridge,              \* "RetroInstance" or "Instance"
  SUPPORT_NO_GAME,     \* RetroCore::SUPPORT_NO_GAME of the core type (trait Core has none)
  system,              \* Option<T>
  system_region,       \* Option<RetroRegion>        (RetroInstance only)
  system_av_info,      \* Option<RetroSystemAvInfo>  (RetroInstance only)
  audio_sample,        \* retro_audio_sample_t        (Option of a callback)
  audio_sample_batch,  \* retro_audio_sample_batch_t
  environment,         \* Option<RetroEnvironment> / retro_environment_t
  input_poll,          \* retro_input_poll_t
  input_state,         \* retro_input_state_t
  video_refresh,       \* retro_video_refresh_t
  last,                \* observation of the latest entry-point call
  loaded,              \* history: Some(what the core produced) while the latest of the calls
                       \* load_game / unload_game / deinit is a load_game that returned
                       \* success, None otherwise.  Instance::on_load_game_special, which
                       \* loads a game as on_load_game does, counts as a load_game;
                       \* RetroInstance::on_load_game_special, which only hands on the
                       \* core's answer, is not counted.
  built,               \* history: the latest returned call among those that construct or
                       \* release a core (see Built below) constructed one
  inited,              \* history: init has returned since construction or the latest deinit
  deinited,            \* history: deinit has been called on this instance value
  channel,             \* history: the callback the most recent set_environment call
                       \* supplied, None before the first one and from deinit on
  unloaded             \* history: since construction or the latest deinit, an unload_game
                       \* called while a game was loaded has returned

slots == <<audio_sample, audio_sample_batch, input_poll, input_state, video_refresh>>
cache == <<system_region, system_av_info>>
hist  == <<loaded, built, inited, deinited, channel, unloaded>>
vars  == <<bridge, SUPPORT_NO_GAME, system, system_region, system_av_info,
           audio_sample, audio_sample_batch, environment, input_poll,
           input_state, video_refresh, last, loaded, built,
           inited, deinited, channel, unloaded>>

(***************************************************************************)
(* Option<T>                                                               *)
(***************************************************************************)
None == <<>>
Some(x) == <<x>>
IsSome(o) == o /= None
Unwrap(o) == o[1]
Opt(S) == {None} \cup {Some(x) : x \in S}

(***************************************************************************)
(* Bounds and input domains                                                *)
(***************************************************************************)
MaxRuntimeCalls == 1   \* Runtime operations a core performs in one frame

Bridges == {"RetroInstance", "Instance"}
Callbacks == {"cb1"}                 \* host function pointers offered to a slot
EnvCallbacks == {"env1"}             \* host environment callbacks

\* enum RetroRegion / Region
Regions == {"NTSC", "PAL"}
\* enum RetroPixelFormat
PixelFormats == {"RGB1555", "XRGB8888", "RGB565"}

\* impl Into<u32> for RetroRegion; impl From<Region> for c_uint
RegionToU32(r) == CASE r = "NTSC" -> 0 [] r = "PAL" -> 1

\* impl Into<u32> for RetroPixelFormat
PixelFormatToU32(f) ==
  CASE f = "RGB1555" -> 0 [] f = "XRGB8888" -> 1 [] f = "RGB565" -> 2

\* a C `bool` payload as the byte the host reads
BoolToByte(b) == IF b THEN 1 ELSE 0

\* struct RetroAudioInfo
RetroAudioInfo(sample_rate) == [sample_rate |-> sample_rate]

\* RetroVideoInfo::new(..).with_pixel_format(..): `assert_ne!(height, 0)` panics on a
\* height of 0 and nothing is constructed; otherwise the aspect ratio is kept as the
\* pair it is the quotient of
RetroVideoInfo(frame_rate, width, height, pixel_format) ==
  IF height = 0
  THEN [panicked |-> TRUE]
  ELSE [frame_rate |-> frame_rate, width |-> width, height |-> height,
        aspect_ratio |-> <<width, height>>, max_width |-> width,
        max_height |-> height, pixel_format |-> pixel_format]

\* enum RetroLoadGameResult { Failure, Success { region, audio, video } }
Failure == None
Success(x) == Some(x)
\* the answers of RetroCore::load_game offered to a frontend's load
RetroLoadGameResultsSmall ==
  {Failure} \cup
  {Success([region |-> "NTSC", audio |-> RetroAudioInfo(44100),
            video |-> RetroVideoInfo(60, 256, 240, "RGB1555")]),
   Success([region |-> "PAL", audio |-> RetroAudioInfo(48000),
            video |-> RetroVideoInfo(50, 320, 200, "XRGB8888")])}

\* struct RetroSystemAvInfo { audio, video }
RetroSystemAvInfo(audio, video) == [audio |-> audio, video |-> video]

\* The value a RetroCore::init call constructs (opaque user state).
RetroCoreValue == [core |-> "RetroCore"]

\* retro_system_av_info as filled by RetroInstance::on_get_system_av_info
retro_system_av_info(avi) ==
  [geometry |-> [aspect_ratio |-> avi.video.aspect_ratio,
                 base_width |-> avi.video.width,
                 base_height |-> avi.video.height,
                 max_width |-> avi.video.max_width,
                 max_height |-> avi.video.max_height],
   timing |-> [fps |-> avi.video.frame_rate,
               sample_rate |-> avi.audio.sample_rate]]

\* An Instance core (retro/mod.rs) is the value Core::load_game returned; it
\* answers get_region and get_system_av_info itself.
SystemAVInfos ==
  {[geometry |-> [aspect_ratio |-> <<0, 1>>, base_width |-> 256, base_height |-> 240,
                  max_width |-> 256, max_height |-> 240],
    timing |-> [fps |-> 60, sample_rate |-> 44100]],
   [geometry |-> [aspect_ratio |-> <<0, 1>>, base_width |-> 320, base_height |-> 200,
                  max_width |-> 640, max_height |-> 400],
    timing |-> [fps |-> 50, sample_rate |-> 48000]]}
Cores == {[region |-> r, av_info |-> a] : r \in Regions, a \in SystemAVInfos}
\* the answers of Core::load_game / Core::load_game_special
LoadGameResultsSmall ==
  {Failure} \cup
  {Success(c) : c \in {d \in Cores : (d.region = "NTSC") = (d.av_info.timing.fps = 60)}}

\* impl From<LoadGameResult<T>> for Option<T>
OptionFromLoadGameResult(result) ==
  IF result = Failure THEN None ELSE Some(Unwrap(result))

(***************************************************************************)
(* Observation of one entry-point call                                     *)
(***************************************************************************)
\* One call out of the bridge: into the core, or into a host callback.  `ret` is
\* what the callee answered, where the caller looks at it.
Ev(fn, cb, key, data, ret) ==
  [fn |-> fn, cb |-> cb, key |-> key, data |-> data, ret |-> ret]
CoreEnvEv(fn, env) == Ev(fn, env, "-", None, None)
HostEv(fn, cb) == Ev(fn, cb, "-", None, None)
EnvEv(cb, key, data, ret) == Ev("environment", cb, key, data, Some(BoolToByte(ret)))

\* op: the entry point; arg: what the core does with it, where that is an input;
\* panicked: the call unwound; ret: the value returned; calls: the calls made, in order
Returned(op, ret, calls) ==
  [op |-> op, arg |-> None, panicked |-> FALSE, ret |-> ret, calls |-> calls]
Panicked(op, calls) ==
  [op |-> op, arg |-> None, panicked |-> TRUE, ret |-> None, calls |-> calls]
WithArg(obs, arg) == [obs EXCEPT !.arg = Some(arg)]

\* the number of events of `calls` that are calls of `fn`
RECURSIVE Count(_, _)
Count(calls, fn) ==
  IF calls = <<>> THEN 0
  ELSE (IF calls[1].fn = fn THEN 1 ELSE 0) + Count(Tail(calls), fn)

\* the number of environment calls in `calls` with selector `key`
RECURSIVE CountKey(_, _)
CountKey(calls, key) ==
  IF calls = <<>> THEN 0
  ELSE (IF calls[1].fn = "environment" /\ calls[1].key = key THEN 1 ELSE 0)
       + CountKey(Tail(calls), key)

\* position of the first call of `fn` in `calls`, 0 if there is none
Index(calls, fn) ==
  IF \E i \in 1..Len(calls) : calls[i].fn = fn
  THEN CHOOSE i \in 1..Len(calls) :
         calls[i].fn = fn /\ \A j \in 1..(i - 1) : calls[j].fn /= fn
  ELSE 0

(***************************************************************************)
(* RetroEnvironment (lib.rs)                                               *)
(***************************************************************************)
\* A raw pointer: null, or the address of a value.
NullPtr == None
PtrTo(x) == Some(x)

\* What a host does with one "get" call: the boolean it returns, and what it writes
\* into the output slot (None: it leaves the slot alone).
HostGet(ret, write) == [ret |-> ret, write |-> write]

\* RetroEnvironment::set_raw: one call of the wrapped callback, whose boolean is returned
RetroEnvironment_set_raw(cb, key, val, hostRet) ==
  [calls |-> <<EnvEv(cb, key, Some(val), hostRet)>>, ret |-> hostRet]

\* RetroEnvironment::cmd_raw had it passed a payload
RetroEnvironment_cmd_raw_with_payload(cb, key, hostRet) ==
  [calls |-> <<EnvEv(cb, key, Some(0), hostRet)>>, ret |-> hostRet]

\* RetroEnvironment::cmd_raw: one call of the wrapped callback with a null payload
RetroEnvironment_cmd_raw(cb, key, hostRet) ==
  [calls |-> <<EnvEv(cb, key, None, hostRet)>>, ret |-> hostRet]

\* RetroEnvironment::get_raw: one call of the wrapped callback with the address of
\* the output slot; the slot afterwards holds what the host wrote, if it wrote
RetroEnvironment_get_raw(cb, key, output, host) ==
  [calls |-> <<EnvEv(cb, key, Some([output |-> output]), host.ret)>>,
   ret |-> host.ret,
   output |-> IF host.write = None THEN output ELSE Unwrap(host.write)]

\* RetroEnvironment::set_bool
RetroEnvironment_set_bool(cb, key, val, hostRet) ==
  RetroEnvironment_set_raw(cb, key, BoolToByte(val), hostRet)

\* RetroEnvironment::set_u32
RetroEnvironment_set_u32(cb, key, val, hostRet) ==
  RetroEnvironment_set_raw(cb, key, val, hostRet)

\* RetroEnvironment::shutdown
RetroEnvironment_shutdown(cb, hostRet) ==
  RetroEnvironment_cmd_raw(cb, "RETRO_ENVIRONMENT_SHUTDOWN", hostRet)

\* RetroEnvironment::set_support_no_game had it announced support whatever the flag
RetroEnvironment_set_support_no_game_always(cb, val, hostRet) ==
  RetroEnvironment_set_bool(cb, "RETRO_ENVIRONMENT_SET_SUPPORT_NO_GAME", TRUE, hostRet)

\* RetroEnvironment::set_support_no_game
RetroEnvironment_set_support_no_game(cb, val, hostRet) ==
  RetroEnvironment_set_bool(cb, "RETRO_ENVIRONMENT_SET_SUPPORT_NO_GAME", val, hostRet)

\* RetroEnvironment::set_pixel_format
RetroEnvironment_set_pixel_format(cb, val, hostRet) ==
  RetroEnvironment_set_u32(cb, "RETRO_ENVIRONMENT_SET_PIXEL_FORMAT",
                           PixelFormatToU32(val), hostRet)

\* RetroEnvironment::get had it believed the host's boolean alone
RetroEnvironment_get_trusting(cb, key, host) ==
  LET raw == RetroEnvironment_get_raw(cb, key, NullPtr, host)
  IN  [calls |-> raw.calls,
       ret |-> IF raw.ret THEN Some(raw.output) ELSE None]

\* RetroEnvironment::get: the slot starts as a null pointer; the result is present
\* when the host returned true and the slot is not null
RetroEnvironment_get(cb, key, host) ==
  LET raw == RetroEnvironment_get_raw(cb, key, NullPtr, host)
  IN  [calls |-> raw.calls,
       ret |-> IF raw.ret /\ raw.output /= NullPtr THEN Some(raw.output) ELSE None]

(***************************************************************************)
(* Runtime passthrough                                                     *)
(***************************************************************************)
RuntimeOps == {"upload_audio_sample", "upload_audio_frame",
               "upload_video_frame", "is_joypad_button_pressed"}

\* what a core does with the runtime during one frame
RECURSIVE SeqsUpTo(_, _)
SeqsUpTo(S, n) ==
  IF n = 0 THEN {<<>>}
  ELSE LET shorter == SeqsUpTo(S, n - 1)
       IN  shorter \cup {Append(s, x) : s \in {t \in shorter : Len(t) = n - 1}, x \in S}
Scripts == SeqsUpTo(RuntimeOps, MaxRuntimeCalls)

\* the callback slot a Runtime operation calls through
RuntimeSlot(rt, op) ==
  CASE op = "upload_audio_sample" -> rt.audio_sample
    [] op = "upload_audio_frame" -> rt.audio_sample_batch
    [] op = "upload_video_frame" -> rt.video_refresh
    [] op = "is_joypad_button_pressed" -> rt.input_state

\* the host callback a Runtime operation invokes
RuntimeCallbackName(op) ==
  CASE op = "upload_audio_sample" -> "audio_sample"
    [] op = "upload_audio_frame" -> "audio_sample_batch"
    [] op = "upload_video_frame" -> "video_refresh"
    [] op = "is_joypad_button_pressed" -> "input_state"

\* RetroRuntime::new had it kept the slots as Runtime::new does
RetroRuntime_new_unchecked(as, asb, is, vr) ==
  Some([audio_sample |-> as, audio_sample_batch |-> asb,
        input_state |-> is, video_refresh |-> vr])

\* RetroRuntime::new (lib.rs): every field is unwrapped with `?`
RetroRuntime_new(as, asb, is, vr) ==
  IF as = None \/ asb = None \/ is = None \/ vr = None THEN None
  ELSE Some([audio_sample |-> Some(Unwrap(as)), audio_sample_batch |-> Some(Unwrap(asb)),
             input_state |-> Some(Unwrap(is)), video_refresh |-> Some(Unwrap(vr))])

\* Runtime::new had it crossed the two audio callbacks
Runtime_new_crossed(as, asb, is, vr) ==
  [audio_sample |-> asb, audio_sample_batch |-> as,
   input_state |-> is, video_refresh |-> vr]

\* Runtime::new (retro/mod.rs): the slots are copied as they are
Runtime_new(as, asb, is, vr) ==
  [audio_sample |-> as, audio_sample_batch |-> asb,
   input_state |-> is, video_refresh |-> vr]

\* Runtime::upload_* / is_joypad_button_pressed: `expect` on the slot, then the call.
\* The core's frame: its Runtime operations in order, cut short by the first panic.
RECURSIVE Core_run(_, _)
Core_run(rt, script) ==
  IF script = <<>> THEN [calls |-> <<>>, panicked |-> FALSE]
  ELSE IF RuntimeSlot(rt, Head(script)) = None
       THEN [calls |-> <<>>, panicked |-> TRUE]
       ELSE LET rest == Core_run(rt, Tail(script))
            IN  [calls |-> <<HostEv(RuntimeCallbackName(Head(script)),
                                    Unwrap(RuntimeSlot(rt, Head(script))))>> \o rest.calls,
                 panicked |-> rest.panicked]

(***************************************************************************)
(* Game descriptor                                                         *)
(***************************************************************************)
\* A C string received from the host: its text and whether it is valid UTF-8.
CStr(text, utf8) == [text |-> text, utf8 |-> utf8]

\* struct retro_game_info { path, data, size, meta }; a null pointer is None
retro_game_info(path, data, size, meta) ==
  [path |-> path, data |-> data, size |-> size, meta |-> meta]

\* CStr::to_str: Err on invalid UTF-8
to_str(s) == IF s.utf8 THEN Some(s.text) ELSE None

\* core::slice::from_raw_parts(data, size)
from_raw_parts(buf, size) == SubSeq(buf, 1, size)

\* impl From<&retro_game_info> for RetroGame had the path been looked at before the data
RetroGame_from_path_first(game) ==
  LET meta == IF game.meta = None THEN None ELSE to_str(Unwrap(game.meta))
  IN  IF game.path = None /\ game.data = None
      THEN [panicked |-> FALSE, variant |-> "None", meta |-> meta, data |-> None, path |-> None]
      ELSE IF game.path /= None
      THEN IF to_str(Unwrap(game.path)) = None
           THEN [panicked |-> TRUE, variant |-> "Path", meta |-> meta, data |-> None, path |-> None]
           ELSE [panicked |-> FALSE, variant |-> "Path", meta |-> meta, data |-> None,
                 path |-> to_str(Unwrap(game.path))]
      ELSE IF game.data /= None
      THEN [panicked |-> FALSE, variant |-> "Data", meta |-> meta,
            data |-> Some(from_raw_parts(Unwrap(game.data), game.size)), path |-> None]
      ELSE [panicked |-> TRUE, variant |-> "unreachable", meta |-> meta, data |-> None, path |-> None]

\* impl From<&retro_game_info> for RetroGame (lib.rs).  The result is the variant,
\* or a panic where `to_str().unwrap()` meets an invalid path.
RetroGame_from(game) ==
  LET meta == IF game.meta = None THEN None ELSE to_str(Unwrap(game.meta))
  IN  IF game.path = None /\ game.data = None
      THEN [panicked |-> FALSE, variant |-> "None", meta |-> meta, data |-> None, path |-> None]
      ELSE IF game.data /= None
      THEN [panicked |-> FALSE, variant |-> "Data", meta |-> meta,
            data |-> Some(from_raw_parts(Unwrap(game.data), game.size)), path |-> None]
      ELSE IF game.path /= None
      THEN IF to_str(Unwrap(game.path)) = None
           THEN [panicked |-> TRUE, variant |-> "Path", meta |-> meta, data |-> None, path |-> None]
           ELSE [panicked |-> FALSE, variant |-> "Path", meta |-> meta, data |-> None,
                 path |-> to_str(Unwrap(game.path))]
      ELSE [panicked |-> TRUE, variant |-> "unreachable", meta |-> meta, data |-> None, path |-> None]

\* impl From<&retro_game_info> for Game (retro/mod.rs): meta stays a CStr, the path
\* becomes a CUtf8 without a check
Game_from(game) ==
  LET meta == IF game.meta = None THEN None ELSE Some(Unwrap(game.meta))
  IN  CASE game.path = None /\ game.data = None ->
             [variant |-> "None", meta |-> meta, data |-> None, path |-> None]
        [] game.data /= None ->
             [variant |-> "Data", meta |-> meta,
              data |-> Some(from_raw_parts(Unwrap(game.data), game.size)), path |-> None]
        [] game.data = None /\ game.path /= None ->
             [variant |-> "Path", meta |-> meta, data |-> None, path |-> Some(Unwrap(game.path))]

\* impl Default for Game
Game_default == [variant |-> "None", meta |-> None, data |-> None, path |-> None]

\* the game pointers a frontend passes in the lifecycle specification
GameInfosSmall ==
  {None, Some(retro_game_info(None, Some(<<1, 2, 3, 4>>), 4, None))}

\* RetroEnvironment::get_str: `self.get(key)?`, then CStr::from_ptr(s).to_str().ok().
\* CStr::from_ptr reads through the pointer: on a null pointer the call is lost.
RetroEnvironment_get_str(cb, key, host) ==
  LET s == RetroEnvironment_get(cb, key, host)
  IN  IF s.ret = None
      THEN [calls |-> s.calls, panicked |-> FALSE, ret |-> None]
      ELSE IF Unwrap(s.ret) = NullPtr
      THEN [calls |-> s.calls, panicked |-> TRUE, ret |-> None]
      ELSE [calls |-> s.calls, panicked |-> FALSE, ret |-> to_str(Unwrap(Unwrap(s.ret)))]

(***************************************************************************)
(* Initial state: every field None                                         *)
(***************************************************************************)
Init ==
  /\ bridge \in Bridges
  /\ SUPPORT_NO_GAME \in (IF bridge = "RetroInstance" THEN BOOLEAN ELSE {FALSE})
  /\ system = None
  /\ system_region = None
  /\ system_av_info = None
  /\ audio_sample = None
  /\ audio_sample_batch = None
  /\ environment = None
  /\ input_poll = None
  /\ input_state = None
  /\ video_refresh = None
  /\ last = Returned("new", None, <<>>)
  /\ loaded = None
  /\ built = FALSE
  /\ inited = FALSE
  /\ deinited = FALSE
  /\ channel = None
  /\ unloaded = FALSE

(***************************************************************************)
(* RetroInstance<T: RetroCore>  (lib.rs)                                   *)
(***************************************************************************)
\* RetroInstance::on_set_environment
RetroInstance_on_set_environment(cb, hostRet) ==
  /\ bridge = "RetroInstance"
  /\ environment' = cb
  /\ last' = IF cb = None
             THEN Panicked("on_set_environment", <<>>)
             ELSE Returned("on_set_environment", None,
                    RetroEnvironment_set_support_no_game(Unwrap(cb), SUPPORT_NO_GAME,
                                                         hostRet).calls)
  /\ channel' = cb
  /\ UNCHANGED <<bridge, SUPPORT_NO_GAME, system, cache, slots, loaded, built, inited, deinited, unloaded>>

\* RetroInstance::on_init had it dropped the core T::init returned
RetroInstance_on_init_dropping ==
  /\ bridge = "RetroInstance"
  /\ IF environment = None
     THEN /\ last' = Panicked("on_init", <<>>)
          /\ UNCHANGED <<built, inited>>
     ELSE /\ last' = Returned("on_init", None,
                               <<CoreEnvEv("Core::init", Unwrap(environment))>>)
          /\ built' = TRUE
          /\ inited' = TRUE
  /\ UNCHANGED <<bridge, SUPPORT_NO_GAME, system, cache, slots, environment, loaded, deinited, unloaded, channel>>

\* RetroInstance::on_init
RetroInstance_on_init ==
  /\ bridge = "RetroInstance"
  /\ IF environment = None
     THEN /\ last' = Panicked("on_init", <<>>)
          /\ UNCHANGED <<system, built, inited>>
     ELSE /\ system' = Some(RetroCoreValue)
          /\ last' = Returned("on_init", None,
                               <<CoreEnvEv("Core::init", Unwrap(environment))>>)
          /\ built' = TRUE
          /\ inited' = TRUE
  /\ UNCHANGED <<bridge, SUPPORT_NO_GAME, cache, slots, environment, loaded, deinited, unloaded, channel>>

\* RetroInstance::on_deinit had it released the four frame callbacks only
RetroInstance_on_deinit_keeping_input_poll ==
  /\ bridge = "RetroInstance"
  /\ system' = None
  /\ audio_sample' = None
  /\ audio_sample_batch' = None
  /\ environment' = None
  /\ input_state' = None
  /\ video_refresh' = None
  /\ last' = Returned("on_deinit", None, <<>>)
  /\ loaded' = None
  /\ built' = FALSE
  /\ inited' = FALSE
  /\ deinited' = TRUE
  /\ unloaded' = FALSE
  /\ channel' = None
  /\ UNCHANGED <<bridge, SUPPORT_NO_GAME, cache, input_poll>>

\* RetroInstance::on_deinit
RetroInstance_on_deinit ==
  /\ bridge = "RetroInstance"
  /\ system' = None
  /\ audio_sample' = None
  /\ audio_sample_batch' = None
  /\ environment' = None
  /\ input_poll' = None
  /\ input_state' = None
  /\ video_refresh' = None
  /\ last' = Returned("on_deinit", None, <<>>)
  /\ loaded' = None
  /\ built' = FALSE
  /\ inited' = FALSE
  /\ deinited' = TRUE
  /\ unloaded' = FALSE
  /\ channel' = None
  /\ UNCHANGED <<bridge, SUPPORT_NO_GAME, cache>>

\* RetroInstance::on_load_game had it kept a region that was cached already
RetroInstance_on_load_game_keeping_region(game, result) ==
  /\ bridge = "RetroInstance"
  /\ LET conv == IF game = None THEN [panicked |-> FALSE] ELSE RetroGame_from(Unwrap(game))
         arg == IF game = None THEN None ELSE Some(conv)
     IN  IF environment = None \/ system = None \/ conv.panicked
         THEN /\ last' = Panicked("on_load_game", <<>>)
              /\ loaded' = None
              /\ UNCHANGED cache
         ELSE /\ IF result = Failure
                 THEN /\ system_av_info' = None
                      /\ UNCHANGED system_region
                 ELSE /\ system_region' = IF system_region = None
                                          THEN Some(Unwrap(result).region)
                                          ELSE system_region
                      /\ system_av_info' = Some(RetroSystemAvInfo(Unwrap(result).audio,
                                                                   Unwrap(result).video))
              /\ last' = Returned("on_load_game", Some(result /= Failure),
                            <<Ev("Core::load_game", Unwrap(environment), "-", arg, Some(result))>>)
              /\ loaded' = IF result = Failure THEN None ELSE Some(Unwrap(result))
  /\ UNCHANGED <<bridge, SUPPORT_NO_GAME, system, slots, environment, built,
                 inited, deinited, unloaded, channel>>

\* RetroInstance::on_load_game
RetroInstance_on_load_game(game, result) ==
  /\ bridge = "RetroInstance"
  /\ LET conv == IF game = None THEN [panicked |-> FALSE] ELSE RetroGame_from(Unwrap(game))
         arg == IF game = None THEN None ELSE Some(conv)
     IN  IF environment = None \/ system = None \/ conv.panicked
         THEN /\ last' = Panicked("on_load_game", <<>>)
              /\ loaded' = None
              /\ UNCHANGED cache
         ELSE /\ IF result = Failure
                 THEN /\ system_av_info' = None
                      /\ UNCHANGED system_region
                 ELSE /\ system_region' = Some(Unwrap(result).region)
                      /\ system_av_info' = Some(RetroSystemAvInfo(Unwrap(result).audio,
                                                                   Unwrap(result).video))
              /\ last' = Returned("on_load_game", Some(result /= Failure),
                            <<Ev("Core::load_game", Unwrap(environment), "-", arg, Some(result))>>)
              /\ loaded' = IF result = Failure THEN None ELSE Some(Unwrap(result))
  /\ UNCHANGED <<bridge, SUPPORT_NO_GAME, system, slots, environment, built,
                 inited, deinited, unloaded, channel>>

\* RetroInstance::on_unload_game had it released the core with the game
RetroInstance_on_unload_game_releasing ==
  /\ bridge = "RetroInstance"
  /\ IF environment = None \/ system = None
     THEN /\ last' = Panicked("on_unload_game", <<>>)
          /\ UNCHANGED system
     ELSE /\ last' = Returned("on_unload_game", None,
                               <<CoreEnvEv("Core::unload_game", Unwrap(environment))>>)
          /\ system' = None
  /\ loaded' = None
  /\ unloaded' = (unloaded \/ (loaded /= None /\ environment /= None /\ system /= None))
  /\ UNCHANGED <<bridge, SUPPORT_NO_GAME, cache, slots, environment, built,
                 inited, deinited, channel>>

\* RetroInstance::on_unload_game
RetroInstance_on_unload_game ==
  /\ bridge = "RetroInstance"
  /\ IF environment = None \/ system = None
     THEN last' = Panicked("on_unload_game", <<>>)
     ELSE last' = Returned("on_unload_game", None,
                           <<CoreEnvEv("Core::unload_game", Unwrap(environment))>>)
  /\ loaded' = None
  /\ unloaded' = (unloaded \/ (loaded /= None /\ environment /= None /\ system /= None))
  /\ UNCHANGED <<bridge, SUPPORT_NO_GAME, system, cache, slots, environment, built,
                 inited, deinited, channel>>

\* RetroInstance::on_get_region
RetroInstance_on_get_region ==
  /\ bridge = "RetroInstance"
  /\ last' = IF system_region = None
             THEN Panicked("on_get_region", <<>>)
             ELSE Returned("on_get_region", Some(RegionToU32(Unwrap(system_region))), <<>>)
  /\ UNCHANGED <<bridge, SUPPORT_NO_GAME, system, cache, slots, environment, hist>>

\* RetroInstance::on_get_system_av_info had it insisted on the pixel format
RetroInstance_on_get_system_av_info_strict(hostRet) ==
  /\ bridge = "RetroInstance"
  /\ last' = IF system_av_info = None \/ environment = None
             THEN Panicked("on_get_system_av_info", <<>>)
             ELSE LET sent == RetroEnvironment_set_pixel_format(Unwrap(environment),
                                Unwrap(system_av_info).video.pixel_format, hostRet)
                  IN  IF sent.ret
                      THEN Returned("on_get_system_av_info",
                                    Some(retro_system_av_info(Unwrap(system_av_info))),
                                    sent.calls)
                      ELSE Panicked("on_get_system_av_info", sent.calls)
  /\ UNCHANGED <<bridge, SUPPORT_NO_GAME, system, cache, slots, environment, hist>>

\* RetroInstance::on_get_system_av_info had it sent the pixel format only when the
\* call before was not a get_system_av_info as well
RetroInstance_on_get_system_av_info_first_only(hostRet) ==
  /\ bridge = "RetroInstance"
  /\ last' = IF system_av_info = None \/ environment = None
             THEN Panicked("on_get_system_av_info", <<>>)
             ELSE Returned("on_get_system_av_info",
                    Some(retro_system_av_info(Unwrap(system_av_info))),
                    IF last.op = "on_get_system_av_info" THEN <<>>
                    ELSE RetroEnvironment_set_pixel_format(Unwrap(environment),
                           Unwrap(system_av_info).video.pixel_format, hostRet).calls)
  /\ UNCHANGED <<bridge, SUPPORT_NO_GAME, system, cache, slots, environment, hist>>

\* RetroInstance::on_get_system_av_info
RetroInstance_on_get_system_av_info(hostRet) ==
  /\ bridge = "RetroInstance"
  /\ last' = IF system_av_info = None \/ environment = None
             THEN Panicked("on_get_system_av_info", <<>>)
             ELSE Returned("on_get_system_av_info",
                    Some(retro_system_av_info(Unwrap(system_av_info))),
                    RetroEnvironment_set_pixel_format(Unwrap(environment),
                      Unwrap(system_av_info).video.pixel_format, hostRet).calls)
  /\ UNCHANGED <<bridge, SUPPORT_NO_GAME, system, cache, slots, environment, hist>>

\* RetroInstance::on_run had it taken the input_poll callback out of its slot
RetroInstance_on_run_taking(script) ==
  /\ bridge = "RetroInstance"
  /\ last' = WithArg(
       IF input_poll = None THEN Panicked("on_run", <<>>)
       ELSE LET polled == <<HostEv("input_poll", Unwrap(input_poll))>>
                runtime == RetroRuntime_new(audio_sample, audio_sample_batch,
                                            input_state, video_refresh)
            IN  IF environment = None \/ runtime = None \/ system = None
                THEN Panicked("on_run", polled)
                ELSE LET frame == Core_run(Unwrap(runtime), script)
                         calls == polled \o <<CoreEnvEv("Core::run", Unwrap(environment))>>
                                         \o frame.calls
                     IN  IF frame.panicked THEN Panicked("on_run", calls)
                         ELSE Returned("on_run", None, calls),
       script)
  /\ input_poll' = None
  /\ UNCHANGED <<bridge, SUPPORT_NO_GAME, system, cache, audio_sample, audio_sample_batch,
                 input_state, video_refresh, environment, hist>>

\* RetroInstance::on_run
RetroInstance_on_run(script) ==
  /\ bridge = "RetroInstance"
  /\ last' = WithArg(
       IF input_poll = None THEN Panicked("on_run", <<>>)
       ELSE LET polled == <<HostEv("input_poll", Unwrap(input_poll))>>
                runtime == RetroRuntime_new(audio_sample, audio_sample_batch,
                                            input_state, video_refresh)
            IN  IF environment = None \/ runtime = None \/ system = None
                THEN Panicked("on_run", polled)
                ELSE LET frame == Core_run(Unwrap(runtime), script)
                         calls == polled \o <<CoreEnvEv("Core::run", Unwrap(environment))>>
                                         \o frame.calls
                     IN  IF frame.panicked THEN Panicked("on_run", calls)
                         ELSE Returned("on_run", None, calls),
       script)
  /\ UNCHANGED <<bridge, SUPPORT_NO_GAME, system, cache, slots, environment, hist>>

\* RetroInstance::on_set_audio_sample
RetroInstance_on_set_audio_sample(cb) ==
  /\ bridge = "RetroInstance"
  /\ audio_sample' = cb
  /\ last' = Returned("on_set_audio_sample", None, <<>>)
  /\ UNCHANGED <<bridge, SUPPORT_NO_GAME, system, cache, audio_sample_batch, environment,
                 input_poll, input_state, video_refresh, hist>>

\* RetroInstance::on_set_audio_sample_batch
RetroInstance_on_set_audio_sample_batch(cb) ==
  /\ bridge = "RetroInstance"
  /\ audio_sample_batch' = cb
  /\ last' = Returned("on_set_audio_sample_batch", None, <<>>)
  /\ UNCHANGED <<bridge, SUPPORT_NO_GAME, system, cache, audio_sample, environment,
                 input_poll, input_state, video_refresh, hist>>

\* RetroInstance::on_set_input_poll had it ignored a null callback
RetroInstance_on_set_input_poll_keeping(cb) ==
  /\ bridge = "RetroInstance"
  /\ input_poll' = IF cb = None THEN input_poll ELSE cb
  /\ last' = Returned("on_set_input_poll", None, <<>>)
  /\ UNCHANGED <<bridge, SUPPORT_NO_GAME, system, cache, audio_sample, audio_sample_batch,
                 environment, input_state, video_refresh, hist>>

\* RetroInstance::on_set_input_poll
RetroInstance_on_set_input_poll(cb) ==
  /\ bridge = "RetroInstance"
  /\ input_poll' = cb
  /\ last' = Returned("on_set_input_poll", None, <<>>)
  /\ UNCHANGED <<bridge, SUPPORT_NO_GAME, system, cache, audio_sample, audio_sample_batch,
                 environment, input_state, video_refresh, hist>>

\* RetroInstance::on_set_input_state
RetroInstance_on_set_input_state(cb) ==
  /\ bridge = "RetroInstance"
  /\ input_state' = cb
  /\ last' = Returned("on_set_input_state", None, <<>>)
  /\ UNCHANGED <<bridge, SUPPORT_NO_GAME, system, cache, audio_sample, audio_sample_batch,
                 environment, input_poll, video_refresh, hist>>

\* RetroInstance::on_set_video_refresh
RetroInstance_on_set_video_refresh(cb) ==
  /\ bridge = "RetroInstance"
  /\ video_refresh' = cb
  /\ last' = Returned("on_set_video_refresh", None, <<>>)
  /\ UNCHANGED <<bridge, SUPPORT_NO_GAME, system, cache, audio_sample, audio_sample_batch,
                 environment, input_poll, input_state, hist>>

\* `let env = self.environment(); self.core_mut(|core| core.<fn>(&env, ..))` and the
\* core_ref twin: both unwrap the channel, then the core, then call the core once.
RetroInstance_core_call(op, fn, arg, coreRet, ret) ==
  /\ bridge = "RetroInstance"
  /\ last' = IF environment = None \/ system = None
             THEN Panicked(op, <<>>)
             ELSE Returned(op, ret, <<Ev(fn, Unwrap(environment), "-", arg, coreRet)>>)
  /\ UNCHANGED <<bridge, SUPPORT_NO_GAME, system, cache, slots, environment, hist>>

\* impl From<u32> for RetroDevice: panics on an unrecognized device type
RetroDevice_from(val) == IF val \in 0..6 THEN Some(val) ELSE None

\* RetroInstance::on_set_controller_port_device
RetroInstance_on_set_controller_port_device(port, device) ==
  /\ bridge = "RetroInstance"
  /\ last' = IF environment = None \/ system = None \/ RetroDevice_from(device) = None
             THEN Panicked("on_set_controller_port_device", <<>>)
             ELSE Returned("on_set_controller_port_device", None,
                    <<Ev("Core::set_controller_port_device", Unwrap(environment), "-",
                         Some(<<port, Unwrap(RetroDevice_from(device))>>), None)>>)
  /\ UNCHANGED <<bridge, SUPPORT_NO_GAME, system, cache, slots, environment, hist>>

\* RetroInstance::on_reset
RetroInstance_on_reset ==
  RetroInstance_core_call("on_reset", "Core::reset", None, None, None)

\* RetroInstance::on_serialize_size
RetroInstance_on_serialize_size(coreRet) ==
  RetroInstance_core_call("on_serialize_size", "Core::serialize_size", None,
    Some(coreRet), Some(coreRet))

\* RetroInstance::on_serialize
RetroInstance_on_serialize(coreRet) ==
  RetroInstance_core_call("on_serialize", "Core::serialize", None,
    Some(coreRet), Some(coreRet))

\* RetroInstance::on_unserialize
RetroInstance_on_unserialize(coreRet) ==
  RetroInstance_core_call("on_unserialize", "Core::unserialize", None,
    Some(coreRet), Some(coreRet))

\* RetroInstance::on_cheat_reset
RetroInstance_on_cheat_reset ==
  RetroInstance_core_call("on_cheat_reset", "Core::cheat_reset", None, None, None)

\* RetroInstance::on_cheat_set: the code pointer is handed on as it is
RetroInstance_on_cheat_set(code) ==
  RetroInstance_core_call("on_cheat_set", "Core::cheat_set", Some(code), None, None)

\* RetroInstance::on_load_game_special: the core's answer is returned, nothing is cached
RetroInstance_on_load_game_special(game, coreRet) ==
  /\ bridge = "RetroInstance"
  /\ last' = IF environment = None \/ system = None \/ RetroGame_from(game).panicked
             THEN Panicked("on_load_game_special", <<>>)
             ELSE Returned("on_load_game_special", Some(coreRet),
                    <<Ev("Core::load_game_special", Unwrap(environment), "-",
                         Some(RetroGame_from(game)), Some(coreRet))>>)
  /\ UNCHANGED <<bridge, SUPPORT_NO_GAME, system, cache, slots, environment, hist>>

\* RetroInstance::on_get_memory_data
RetroInstance_on_get_memory_data(coreRet) ==
  RetroInstance_core_call("on_get_memory_data", "Core::get_memory_data", None,
    Some(coreRet), Some(coreRet))

\* RetroInstance::on_get_memory_size
RetroInstance_on_get_memory_size(coreRet) ==
  RetroInstance_core_call("on_get_memory_size", "Core::get_memory_size", None,
    Some(coreRet), Some(coreRet))

(***************************************************************************)
(* Instance<T: Core>  (retro/mod.rs)                                       *)
(***************************************************************************)
\* Instance::on_set_environment had a new channel reset the core
Instance_on_set_environment_resetting(env) ==
  /\ bridge = "Instance"
  /\ environment' = Some(env)
  /\ system' = None
  /\ last' = Returned("on_set_environment", None, <<CoreEnvEv("Core::set_environment", env)>>)
  /\ channel' = Some(env)
  /\ UNCHANGED <<bridge, SUPPORT_NO_GAME, cache, slots, loaded, built, inited, deinited, unloaded>>

\* Instance::on_set_environment: the callback is not nullable here
Instance_on_set_environment(env) ==
  /\ bridge = "Instance"
  /\ environment' = Some(env)
  /\ last' = Returned("on_set_environment", None, <<CoreEnvEv("Core::set_environment", env)>>)
  /\ channel' = Some(env)
  /\ UNCHANGED <<bridge, SUPPORT_NO_GAME, system, cache, slots, loaded, built, inited, deinited, unloaded>>

\* Instance::on_init: Core::init is a hook, no core is constructed
Instance_on_init ==
  /\ bridge = "Instance"
  /\ IF environment = None
     THEN /\ last' = Panicked("on_init", <<>>)
          /\ UNCHANGED inited
     ELSE /\ last' = Returned("on_init", None,
                               <<CoreEnvEv("Core::init", Unwrap(environment))>>)
          /\ inited' = TRUE
  /\ UNCHANGED <<bridge, SUPPORT_NO_GAME, system, cache, slots, environment,
                 loaded, built, deinited, unloaded, channel>>

\* Instance::on_deinit had it kept the channel
Instance_on_deinit_keeping_channel ==
  /\ bridge = "Instance"
  /\ system' = None
  /\ audio_sample' = None
  /\ audio_sample_batch' = None
  /\ input_poll' = None
  /\ input_state' = None
  /\ video_refresh' = None
  /\ last' = Returned("on_deinit", None, <<>>)
  /\ loaded' = None
  /\ built' = FALSE
  /\ inited' = FALSE
  /\ deinited' = TRUE
  /\ unloaded' = FALSE
  /\ channel' = None
  /\ UNCHANGED <<bridge, SUPPORT_NO_GAME, cache, environment>>

\* Instance::on_deinit
Instance_on_deinit ==
  /\ bridge = "Instance"
  /\ system' = None
  /\ audio_sample' = None
  /\ audio_sample_batch' = None
  /\ environment' = None
  /\ input_poll' = None
  /\ input_state' = None
  /\ video_refresh' = None
  /\ last' = Returned("on_deinit", None, <<>>)
  /\ loaded' = None
  /\ built' = FALSE
  /\ inited' = FALSE
  /\ deinited' = TRUE
  /\ unloaded' = FALSE
  /\ channel' = None
  /\ UNCHANGED <<bridge, SUPPORT_NO_GAME, cache>>

\* Instance::on_load_game
Instance_on_load_game(game, result) ==
  /\ bridge = "Instance"
  /\ IF environment = None
     THEN /\ last' = Panicked("on_load_game", <<>>)
          /\ loaded' = None
          /\ UNCHANGED <<system, built>>
     ELSE /\ system' = OptionFromLoadGameResult(result)
          /\ last' = Returned("on_load_game", Some(OptionFromLoadGameResult(result) /= None),
                        <<Ev("Core::load_game", Unwrap(environment), "-",
                             Some(IF game = None THEN Game_default ELSE Game_from(Unwrap(game))),
                             Some(result))>>)
          /\ loaded' = IF result = Failure THEN None ELSE Some(Unwrap(result))
          /\ built' = (result /= Failure)
  /\ UNCHANGED <<bridge, SUPPORT_NO_GAME, cache, slots, environment, inited, deinited, unloaded,
                 channel>>

\* Instance::on_load_game_special had a Failure left the core slot as it was
Instance_on_load_game_special_keeping(game, result) ==
  /\ bridge = "Instance"
  /\ IF environment = None
     THEN /\ last' = Panicked("on_load_game_special", <<>>)
          /\ loaded' = None
          /\ UNCHANGED <<system, built>>
     ELSE /\ system' = IF result = Failure THEN system ELSE OptionFromLoadGameResult(result)
          /\ last' = Returned("on_load_game_special",
                        Some(OptionFromLoadGameResult(result) /= None),
                        <<Ev("Core::load_game_special", Unwrap(environment), "-",
                             Some(Game_from(game)), Some(result))>>)
          /\ loaded' = IF result = Failure THEN None ELSE Some(Unwrap(result))
          /\ built' = (result /= Failure)
  /\ UNCHANGED <<bridge, SUPPORT_NO_GAME, cache, slots, environment, inited, deinited, unloaded,
                 channel>>

\* Instance::on_load_game_special
Instance_on_load_game_special(game, result) ==
  /\ bridge = "Instance"
  /\ IF environment = None
     THEN /\ last' = Panicked("on_load_game_special", <<>>)
          /\ loaded' = None
          /\ UNCHANGED <<system, built>>
     ELSE /\ system' = OptionFromLoadGameResult(result)
          /\ last' = Returned("on_load_game_special",
                        Some(OptionFromLoadGameResult(result) /= None),
                        <<Ev("Core::load_game_special", Unwrap(environment), "-",
                             Some(Game_from(game)), Some(result))>>)
          /\ loaded' = IF result = Failure THEN None ELSE Some(Unwrap(result))
          /\ built' = (result /= Failure)
  /\ UNCHANGED <<bridge, SUPPORT_NO_GAME, cache, slots, environment, inited, deinited, unloaded,
                 channel>>

\* `let mut env = self.environment(); self.core_mut(|core| core.<fn>(&mut env, ..))`
Instance_core_call(op, fn, arg, coreRet, ret) ==
  /\ bridge = "Instance"
  /\ last' = IF environment = None \/ system = None
             THEN Panicked(op, <<>>)
             ELSE Returned(op, ret, <<Ev(fn, Unwrap(environment), "-", arg, coreRet)>>)
  /\ UNCHANGED <<bridge, SUPPORT_NO_GAME, system, cache, slots, environment, hist>>

\* Instance::on_unload_game had it released the core after Core::unload_game
Instance_on_unload_game_releasing ==
  /\ bridge = "Instance"
  /\ IF environment = None \/ system = None
     THEN /\ last' = Panicked("on_unload_game", <<>>)
          /\ UNCHANGED system
     ELSE /\ last' = Returned("on_unload_game", None,
                               <<CoreEnvEv("Core::unload_game", Unwrap(environment))>>)
          /\ system' = None
  /\ loaded' = None
  /\ unloaded' = (unloaded \/ (loaded /= None /\ environment /= None /\ system /= None))
  /\ UNCHANGED <<bridge, SUPPORT_NO_GAME, cache, slots, environment, built,
                 inited, deinited, channel>>

\* Instance::on_unload_game: the core stays in its slot
Instance_on_unload_game ==
  /\ bridge = "Instance"
  /\ IF environment = None \/ system = None
     THEN last' = Panicked("on_unload_game", <<>>)
     ELSE last' = Returned("on_unload_game", None,
                           <<CoreEnvEv("Core::unload_game", Unwrap(environment))>>)
  /\ loaded' = None
  /\ unloaded' = (unloaded \/ (loaded /= None /\ environment /= None /\ system /= None))
  /\ UNCHANGED <<bridge, SUPPORT_NO_GAME, system, cache, slots, environment, built,
                 inited, deinited, channel>>

\* Instance::on_get_region: asks the core
Instance_on_get_region ==
  /\ bridge = "Instance"
  /\ last' = IF system = None \/ environment = None
             THEN Panicked("on_get_region", <<>>)
             ELSE Returned("on_get_region", Some(RegionToU32(Unwrap(system).region)),
                           <<CoreEnvEv("Core::get_region", Unwrap(environment))>>)
  /\ UNCHANGED <<bridge, SUPPORT_NO_GAME, system, cache, slots, environment, hist>>

\* Instance::on_get_system_av_info: asks the core
Instance_on_get_system_av_info ==
  /\ bridge = "Instance"
  /\ last' = IF system = None \/ environment = None
             THEN Panicked("on_get_system_av_info", <<>>)
             ELSE Returned("on_get_system_av_info", Some(Unwrap(system).av_info),
                           <<CoreEnvEv("Core::get_system_av_info", Unwrap(environment))>>)
  /\ UNCHANGED <<bridge, SUPPORT_NO_GAME, system, cache, slots, environment, hist>>

\* Instance::on_run had it skipped an unregistered input_poll
Instance_on_run_lenient(script) ==
  /\ bridge = "Instance"
  /\ last' = WithArg(
       LET polled == IF input_poll = None THEN <<>>
                     ELSE <<HostEv("input_poll", Unwrap(input_poll))>>
           runtime == Runtime_new(audio_sample, audio_sample_batch,
                                  input_state, video_refresh)
       IN  IF environment = None \/ system = None
           THEN Panicked("on_run", polled)
           ELSE LET frame == Core_run(runtime, script)
                    calls == polled \o <<CoreEnvEv("Core::run", Unwrap(environment))>>
                                    \o frame.calls
                IN  IF frame.panicked THEN Panicked("on_run", calls)
                    ELSE Returned("on_run", None, calls),
       script)
  /\ UNCHANGED <<bridge, SUPPORT_NO_GAME, system, cache, slots, environment, hist>>

\* Instance::on_run had it required all four frame callbacks before the frame
Instance_on_run_eager(script) ==
  /\ bridge = "Instance"
  /\ last' = WithArg(
       IF input_poll = None THEN Panicked("on_run", <<>>)
       ELSE LET polled == <<HostEv("input_poll", Unwrap(input_poll))>>
                runtime == Runtime_new(audio_sample, audio_sample_batch,
                                       input_state, video_refresh)
            IN  IF environment = None \/ system = None
                   \/ \E op \in RuntimeOps : RuntimeSlot(runtime, op) = None
                THEN Panicked("on_run", polled)
                ELSE LET frame == Core_run(runtime, script)
                         calls == polled \o <<CoreEnvEv("Core::run", Unwrap(environment))>>
                                         \o frame.calls
                     IN  IF frame.panicked THEN Panicked("on_run", calls)
                         ELSE Returned("on_run", None, calls),
       script)
  /\ UNCHANGED <<bridge, SUPPORT_NO_GAME, system, cache, slots, environment, hist>>

\* Instance::on_run with Instance::input_poll
Instance_on_run(script) ==
  /\ bridge = "Instance"
  /\ last' = WithArg(
       IF input_poll = None THEN Panicked("on_run", <<>>)
       ELSE LET polled == <<HostEv("input_poll", Unwrap(input_poll))>>
                runtime == Runtime_new(audio_sample, audio_sample_batch,
                                       input_state, video_refresh)
            IN  IF environment = None \/ system = None
                THEN Panicked("on_run", polled)
                ELSE LET frame == Core_run(runtime, script)
                         calls == polled \o <<CoreEnvEv("Core::run", Unwrap(environment))>>
                                         \o frame.calls
                     IN  IF frame.panicked THEN Panicked("on_run", calls)
                         ELSE Returned("on_run", None, calls),
       script)
  /\ UNCHANGED <<bridge, SUPPORT_NO_GAME, system, cache, slots, environment, hist>>

\* Instance::on_set_audio_sample
Instance_on_set_audio_sample(cb) ==
  /\ bridge = "Instance"
  /\ audio_sample' = cb
  /\ last' = Returned("on_set_audio_sample", None, <<>>)
  /\ UNCHANGED <<bridge, SUPPORT_NO_GAME, system, cache, audio_sample_batch, environment,
                 input_poll, input_state, video_refresh, hist>>

\* Instance::on_set_audio_sample_batch
Instance_on_set_audio_sample_batch(cb) ==
  /\ bridge = "Instance"
  /\ audio_sample_batch' = cb
  /\ last' = Returned("on_set_audio_sample_batch", None, <<>>)
  /\ UNCHANGED <<bridge, SUPPORT_NO_GAME, system, cache, audio_sample, environment,
                 input_poll, input_state, video_refresh, hist>>

\* Instance::on_set_input_poll
Instance_on_set_input_poll(cb) ==
  /\ bridge = "Instance"
  /\ input_poll' = cb
  /\ last' = Returned("on_set_input_poll", None, <<>>)
  /\ UNCHANGED <<bridge, SUPPORT_NO_GAME, system, cache, audio_sample, audio_sample_batch,
                 environment, input_state, video_refresh, hist>>

\* Instance::on_set_input_state
Instance_on_set_input_state(cb) ==
  /\ bridge = "Instance"
  /\ input_state' = cb
  /\ last' = Returned("on_set_input_state", None, <<>>)
  /\ UNCHANGED <<bridge, SUPPORT_NO_GAME, system, cache, audio_sample, audio_sample_batch,
                 environment, input_poll, video_refresh, hist>>

\* Instance::on_set_video_refresh
Instance_on_set_video_refresh(cb) ==
  /\ bridge = "Instance"
  /\ video_refresh' = cb
  /\ last' = Returned("on_set_video_refresh", None, <<>>)
  /\ UNCHANGED <<bridge, SUPPORT_NO_GAME, system, cache, audio_sample, audio_sample_batch,
                 environment, input_poll, input_state, hist>>

\* impl TryFrom<c_uint> for Device
Device_try_from(val) == IF val \in 0..6 THEN Some(val) ELSE None

\* u8::try_from(port)
u8_try_from(port) == IF port \in 0..255 THEN Some(port) ELSE None

\* Instance::on_set_controller_port_device had it fetched the channel and the core
\* before converting its arguments
Instance_on_set_controller_port_device_core_first(port, device) ==
  /\ bridge = "Instance"
  /\ last' = IF environment = None \/ system = None
             THEN Panicked("on_set_controller_port_device", <<>>)
             ELSE IF Device_try_from(device) = None \/ u8_try_from(port) = None
             THEN Returned("on_set_controller_port_device", None, <<>>)
             ELSE Returned("on_set_controller_port_device", None,
                    <<Ev("Core::set_controller_port_device", Unwrap(environment), "-",
                         Some(<<Unwrap(u8_try_from(port)), Unwrap(Device_try_from(device))>>),
                         None)>>)
  /\ UNCHANGED <<bridge, SUPPORT_NO_GAME, system, cache, slots, environment, hist>>

\* Instance::on_set_controller_port_device: an unknown device or a port above 255 is
\* dropped before the channel or the core is looked at
Instance_on_set_controller_port_device(port, device) ==
  /\ bridge = "Instance"
  /\ last' = IF Device_try_from(device) = None \/ u8_try_from(port) = None
             THEN Returned("on_set_controller_port_device", None, <<>>)
             ELSE IF environment = None \/ system = None
             THEN Panicked("on_set_controller_port_device", <<>>)
             ELSE Returned("on_set_controller_port_device", None,
                    <<Ev("Core::set_controller_port_device", Unwrap(environment), "-",
                         Some(<<Unwrap(u8_try_from(port)), Unwrap(Device_try_from(device))>>),
                         None)>>)
  /\ UNCHANGED <<bridge, SUPPORT_NO_GAME, system, cache, slots, environment, hist>>

\* Instance::on_reset
Instance_on_reset ==
  Instance_core_call("on_reset", "Core::reset", None, None, None)

\* Instance::on_serialize_size
Instance_on_serialize_size(coreRet) ==
  Instance_core_call("on_serialize_size", "Core::serialize_size", None,
    Some(coreRet), Some(coreRet))

\* Instance::on_serialize had it reported success whatever the core answered
Instance_on_serialize_masking(coreRet) ==
  Instance_core_call("on_serialize", "Core::serialize", None, Some(coreRet), Some(TRUE))

\* Instance::on_serialize
Instance_on_serialize(coreRet) ==
  Instance_core_call("on_serialize", "Core::serialize", None,
    Some(coreRet), Some(coreRet))

\* Instance::on_unserialize
Instance_on_unserialize(coreRet) ==
  Instance_core_call("on_unserialize", "Core::unserialize", None,
    Some(coreRet), Some(coreRet))

\* Instance::on_cheat_reset
Instance_on_cheat_reset ==
  Instance_core_call("on_cheat_reset", "Core::cheat_reset", None, None, None)

\* Instance::on_cheat_set: `to_str().expect(..)` comes before the channel and the core
Instance_on_cheat_set(code) ==
  /\ bridge = "Instance"
  /\ last' = IF to_str(code) = None \/ environment = None \/ system = None
             THEN Panicked("on_cheat_set", <<>>)
             ELSE Returned("on_cheat_set", None,
                    <<Ev("Core::cheat_set", Unwrap(environment), "-", to_str(code), None)>>)
  /\ UNCHANGED <<bridge, SUPPORT_NO_GAME, system, cache, slots, environment, hist>>

\* Instance::on_get_memory_data: the region's pointer, null when the core has none
Instance_on_get_memory_data(coreRet) ==
  Instance_core_call("on_get_memory_data", "Core::get_memory_data", None, Some(coreRet),
                     Some(IF coreRet = None THEN "null" ELSE "ptr"))

\* Instance::on_get_memory_size had a core with no region been reported as one byte
Instance_on_get_memory_size_nonzero(coreRet) ==
  Instance_core_call("on_get_memory_size", "Core::get_memory_data", None, Some(coreRet),
                     Some(IF coreRet = None THEN 1 ELSE Unwrap(coreRet)))

\* Instance::on_get_memory_size: the length of the region Core::get_memory_data returns
Instance_on_get_memory_size(coreRet) ==
  Instance_core_call("on_get_memory_size", "Core::get_memory_data", None, Some(coreRet),
                     Some(IF coreRet = None THEN 0 ELSE Unwrap(coreRet)))

(***************************************************************************)
(* The frontend drives the entry points in any order                       *)
(***************************************************************************)
Sizes == {0, 16}
Pointers == {"null", "ptr"}
Ports == {0, 256}
DeviceCodes == {1, 7}
Codes == {CStr("code", TRUE), CStr("bad", FALSE)}
GameInfoSpecial == retro_game_info(Some(CStr("/rom", TRUE)), None, 0, None)

Next ==
  \/ \E cb \in Opt(EnvCallbacks), hostRet \in BOOLEAN :
       RetroInstance_on_set_environment(cb, hostRet)
  \/ RetroInstance_on_init
  \/ RetroInstance_on_deinit
  \/ \E game \in GameInfosSmall, result \in RetroLoadGameResultsSmall :
       RetroInstance_on_load_game(game, result)
  \/ \E coreRet \in BOOLEAN : RetroInstance_on_load_game_special(GameInfoSpecial, coreRet)
  \/ RetroInstance_on_unload_game
  \/ RetroInstance_on_get_region
  \/ \E hostRet \in BOOLEAN : RetroInstance_on_get_system_av_info(hostRet)
  \/ \E script \in Scripts : RetroInstance_on_run(script)
  \/ \E cb \in Opt(Callbacks) : RetroInstance_on_set_audio_sample(cb)
  \/ \E cb \in Opt(Callbacks) : RetroInstance_on_set_audio_sample_batch(cb)
  \/ \E cb \in Opt(Callbacks) : RetroInstance_on_set_input_poll(cb)
  \/ \E cb \in Opt(Callbacks) : RetroInstance_on_set_input_state(cb)
  \/ \E cb \in Opt(Callbacks) : RetroInstance_on_set_video_refresh(cb)
  \/ \E port \in Ports, device \in DeviceCodes :
       RetroInstance_on_set_controller_port_device(port, device)
  \/ RetroInstance_on_reset
  \/ \E coreRet \in Sizes : RetroInstance_on_serialize_size(coreRet)
  \/ \E coreRet \in BOOLEAN : RetroInstance_on_serialize(coreRet)
  \/ \E coreRet \in BOOLEAN : RetroInstance_on_unserialize(coreRet)
  \/ RetroInstance_on_cheat_reset
  \/ \E code \in Codes : RetroInstance_on_cheat_set(code)
  \/ \E coreRet \in Pointers : RetroInstance_on_get_memory_data(coreRet)
  \/ \E coreRet \in Sizes : RetroInstance_on_get_memory_size(coreRet)
  \/ \E env \in EnvCallbacks : Instance_on_set_environment(env)
  \/ Instance_on_init
  \/ Instance_on_deinit
  \/ \E game \in GameInfosSmall, result \in LoadGameResultsSmall :
       Instance_on_load_game(game, result)
  \/ \E result \in LoadGameResultsSmall :
       Instance_on_load_game_special(GameInfoSpecial, result)
  \/ Instance_on_unload_game
  \/ Instance_on_get_region
  \/ Instance_on_get_system_av_info
  \/ \E script \in Scripts : Instance_on_run(script)
  \/ \E cb \in Opt(Callbacks) : Instance_on_set_audio_sample(cb)
  \/ \E cb \in Opt(Callbacks) : Instance_on_set_audio_sample_batch(cb)
  \/ \E cb \in Opt(Callbacks) : Instance_on_set_input_poll(cb)
  \/ \E cb \in Opt(Callbacks) : Instance_on_set_input_state(cb)
  \/ \E cb \in Opt(Callbacks) : Instance_on_set_video_refresh(cb)
  \/ \E port \in Ports, device \in DeviceCodes :
       Instance_on_set_controller_port_device(port, device)
  \/ Instance_on_reset
  \/ \E coreRet \in Sizes : Instance_on_serialize_size(coreRet)
  \/ \E coreRet \in BOOLEAN : Instance_on_serialize(coreRet)
  \/ \E coreRet \in BOOLEAN : Instance_on_unserialize(coreRet)
  \/ Instance_on_cheat_reset
  \/ \E code \in Codes : Instance_on_cheat_set(code)
  \/ \E coreRet \in Opt(Sizes) : Instance_on_get_memory_data(coreRet)
  \/ \E coreRet \in Opt(Sizes) : Instance_on_get_memory_size(coreRet)

Spec == Init /\ [][Next]_vars

(***************************************************************************)
(* Properties                                                              *)
(***************************************************************************)
\* GameLoaded of the lifecycle state machine: the most recent of the calls
\* load_game / unload_game / deinit was a load_game that returned success (see the
\* note at `loaded` for load_game_special)
GameLoaded == loaded /= None

\* Built: the core slot's history.  RetroInstance: init has returned since
\* construction or the latest deinit.  Instance: the most recent of the returned
\* calls load_game / load_game_special / deinit was a load the core answered with
\* Success.  (`built` is written by exactly these calls.)
Built == built

Setters == {"on_set_audio_sample", "on_set_audio_sample_batch", "on_set_input_poll",
            "on_set_input_state", "on_set_video_refresh"}

\* C1 (as stated): in every reachable state the core slot is Some if and only if the
\* bridge is in GameLoaded.
C1_CoreIffGameLoaded == IsSome(system) <=> GameLoaded

\* C1 (amended): the core slot is Some if and only if Built: RetroInstance holds a
\* core from init to deinit, whatever load_game and unload_game did; Instance holds
\* the core of the latest successful load_game / load_game_special until a failed
\* load or deinit, and unload_game leaves it in the slot.
C1_CoreIffBuilt ==
  /\ IsSome(system) <=> Built
  /\ (last.op = "on_unload_game" /\ ~last.panicked) => IsSome(system)
  /\ (bridge = "RetroInstance" /\ last.op = "on_load_game" /\ ~last.panicked) => IsSome(system)

\* C1 witness: unload_game has returned and the core is still in its slot.
C1_Witness ==
  /\ bridge = "Instance"
  /\ last.op = "on_unload_game"
  /\ ~last.panicked
  /\ IsSome(system)
  /\ ~GameLoaded

\* C2: a RetroInstance::on_load_game call that returns true leaves the cached region
\* and av-info equal to what the core produced; one that returns false leaves both
\* the cached region and the cached av-info absent.
C2_LoadGameCaches ==
  (bridge = "RetroInstance" /\ last.op = "on_load_game" /\ ~last.panicked) =>
    IF last.ret = Some(TRUE)
    THEN /\ loaded /= None
         /\ system_region = Some(Unwrap(loaded).region)
         /\ system_av_info = Some(RetroSystemAvInfo(Unwrap(loaded).audio, Unwrap(loaded).video))
    ELSE /\ system_region = None
         /\ system_av_info = None

\* what get_region / get_system_av_info return for the latest successful load
ExpectedRegion == Some(RegionToU32(Unwrap(loaded).region))
ExpectedAvInfo ==
  IF bridge = "RetroInstance"
  THEN Some(retro_system_av_info(RetroSystemAvInfo(Unwrap(loaded).audio, Unwrap(loaded).video)))
  ELSE Some(Unwrap(loaded).av_info)

\* C3: get_system_av_info and get_region abort whenever the bridge is not in
\* GameLoaded, and in GameLoaded return the values of the most recent successful load.
C3_QueriesNeedGameLoaded ==
  /\ (last.op \in {"on_get_region", "on_get_system_av_info"} /\ ~GameLoaded) => last.panicked
  /\ (last.op = "on_get_region" /\ GameLoaded /\ ~last.panicked) => last.ret = ExpectedRegion
  /\ (last.op = "on_get_system_av_info" /\ GameLoaded /\ ~last.panicked) =>
       last.ret = ExpectedAvInfo

\* C4: run aborts without invoking the Core's run operation whenever the bridge is
\* not in GameLoaded.
C4_RunNeedsGameLoaded ==
  (last.op = "on_run" /\ ~GameLoaded) =>
    (last.panicked /\ Count(last.calls, "Core::run") = 0)

\* C5: after RetroInstance::on_unload_game returns, the cached region and the cached
\* av-info are both absent.
C5_UnloadClearsCache ==
  (bridge = "RetroInstance" /\ last.op = "on_unload_game" /\ ~last.panicked) =>
    (system_region = None /\ system_av_info = None)

\* C6: a run call that returns has invoked input_poll exactly once, before its single
\* invocation of the Core's run; with the input_poll slot empty run aborts and the
\* Core's run is not invoked.
C6_RunPollsOnceFirst ==
  last.op = "on_run" =>
    /\ ~last.panicked =>
         /\ Count(last.calls, "input_poll") = 1
         /\ Count(last.calls, "Core::run") = 1
         /\ Index(last.calls, "input_poll") < Index(last.calls, "Core::run")
         /\ last.calls[1] = HostEv("input_poll", Unwrap(input_poll))
    /\ input_poll = None =>
         (last.panicked /\ last.calls = <<>>)

\* C6 witness: a run has returned after polling and running the core.
C6_Witness ==
  /\ last.op = "on_run"
  /\ ~last.panicked
  /\ Len(last.calls) >= 2

FrameSlotEmpty ==
  audio_sample = None \/ audio_sample_batch = None \/ input_state = None \/ video_refresh = None

\* the run got as far as the frame: input_poll, channel and core are all there
RunReachedFrame == input_poll /= None /\ environment /= None /\ system /= None

\* the callback slot behind a Runtime operation, in the bridge's fields
SlotOf(op) ==
  CASE op = "upload_audio_sample" -> audio_sample
    [] op = "upload_audio_frame" -> audio_sample_batch
    [] op = "upload_video_frame" -> video_refresh
    [] op = "is_joypad_button_pressed" -> input_state

\* the core's frame uses an operation whose callback is not registered
ScriptNeedsEmptySlot(script) ==
  \E i \in 1..Len(script) : SlotOf(script[i]) = None

\* C7 (as stated): run aborts, without invoking the Core's run, whenever one of the
\* four frame slots is empty, whatever the core would have used.
C7_RunNeedsAllFrameSlots ==
  (last.op = "on_run" /\ FrameSlotEmpty) =>
    (last.panicked /\ Count(last.calls, "Core::run") = 0)

\* C7 (amended): that holds of RetroInstance (lib.rs), whose RetroRuntime::new
\* unwraps all four slots before the core runs; Instance (retro/mod.rs) builds its
\* Runtime from the slots as they are and invokes the Core's run once whenever
\* input_poll, the channel and the core are present.
C7_RetroRunNeedsAllFrameSlots ==
  /\ (bridge = "RetroInstance" /\ last.op = "on_run" /\ FrameSlotEmpty) =>
       (last.panicked /\ Count(last.calls, "Core::run") = 0)
  /\ (bridge = "Instance" /\ last.op = "on_run" /\ RunReachedFrame) =>
       Count(last.calls, "Core::run") = 1

\* C7 witness: a RetroInstance run aborted only for an empty frame slot, after polling.
C7_Witness ==
  /\ bridge = "RetroInstance"
  /\ last.op = "on_run"
  /\ last.panicked
  /\ RunReachedFrame
  /\ FrameSlotEmpty
  /\ last.calls = <<HostEv("input_poll", Unwrap(input_poll))>>

\* C8 (as stated): no setter fails, and a run that gets to the frame aborts for an
\* absent frame callback only when the core invokes the operation that needs it:
\* it returns when the core uses only operations whose callbacks are set.
C8_LazyFrameSlots ==
  /\ last.op \in Setters => ~last.panicked
  /\ (last.op = "on_run" /\ RunReachedFrame) =>
       (last.panicked <=> ScriptNeedsEmptySlot(Unwrap(last.arg)))

\* C8 (amended): that holds of Instance (retro/mod.rs); RetroInstance (lib.rs)
\* aborts a run at its start when any of the four slots is empty.  The setters of
\* both bridges accept an absent callback.
C8_InstanceLazyFrameSlots ==
  /\ last.op \in Setters => ~last.panicked
  /\ (bridge = "Instance" /\ last.op = "on_run" /\ RunReachedFrame) =>
       /\ last.panicked <=> ScriptNeedsEmptySlot(Unwrap(last.arg))
       /\ Count(last.calls, "Core::run") = 1
  /\ (bridge = "RetroInstance" /\ last.op = "on_run" /\ RunReachedFrame) =>
       (last.panicked <=> FrameSlotEmpty)

\* C8 witness: an Instance run returned with a frame slot empty, the core having used
\* an operation whose callback is set.
C8_Witness ==
  /\ bridge = "Instance"
  /\ last.op = "on_run"
  /\ ~last.panicked
  /\ FrameSlotEmpty
  /\ Len(Unwrap(last.arg)) >= 1

\* the one call RetroInstance::on_set_environment makes through the new channel
IsSupportNoGameCall(e) ==
  /\ e.fn = "environment"
  /\ e.cb = Unwrap(environment)
  /\ e.key = "RETRO_ENVIRONMENT_SET_SUPPORT_NO_GAME"
  /\ e.data = Some(BoolToByte(SUPPORT_NO_GAME))

\* C9 (as stated): set_environment with a non-null callback stores it and sends
\* SET_SUPPORT_NO_GAME through it exactly once, with the core's flag as payload; no
\* other entry point sends SET_SUPPORT_NO_GAME.
C9_SupportNoGameSentOnce ==
  /\ (last.op = "on_set_environment" /\ environment /= None) =>
       (~last.panicked /\ Len(last.calls) = 1 /\ IsSupportNoGameCall(last.calls[1]))
  /\ last.op /= "on_set_environment" =>
       CountKey(last.calls, "RETRO_ENVIRONMENT_SET_SUPPORT_NO_GAME") = 0

\* C9 (amended): that holds of RetroInstance (lib.rs).  Instance::on_set_environment
\* (retro/mod.rs) calls the Core::set_environment hook once with the callback, then
\* stores it, and sends no selector of its own.
C9_RetroSupportNoGameSentOnce ==
  /\ (bridge = "RetroInstance" /\ last.op = "on_set_environment" /\ environment /= None) =>
       (~last.panicked /\ Len(last.calls) = 1 /\ IsSupportNoGameCall(last.calls[1]))
  /\ (bridge = "Instance" /\ last.op = "on_set_environment") =>
       /\ ~last.panicked
       /\ environment /= None
       /\ last.calls = <<CoreEnvEv("Core::set_environment", Unwrap(environment))>>
  /\ last.op /= "on_set_environment" =>
       CountKey(last.calls, "RETRO_ENVIRONMENT_SET_SUPPORT_NO_GAME") = 0

\* C9 witness: RetroInstance has told the host that the core does not support no-game.
C9_Witness ==
  /\ bridge = "RetroInstance"
  /\ last.op = "on_set_environment"
  /\ ~SUPPORT_NO_GAME
  /\ Len(last.calls) = 1
  /\ last.calls[1].data = Some(0)

\* C10 (as stated): init aborts if no channel is bound; with a channel bound it
\* invokes the Core's init exactly once with that channel and afterwards the bridge
\* holds a constructed core.
C10_InitConstructsCore ==
  last.op = "on_init" =>
    IF environment = None
    THEN last.panicked /\ last.calls = <<>>
    ELSE /\ ~last.panicked
         /\ last.calls = <<CoreEnvEv("Core::init", Unwrap(environment))>>
         /\ IsSome(system)

\* C10 (amended): init aborts if no channel is bound; with a channel bound it invokes
\* the Core's init exactly once with that channel.  RetroInstance (lib.rs) then holds
\* the core that call returned; Instance (retro/mod.rs), whose Core::init is a hook
\* returning nothing, leaves the core slot as it was.
C10_InitConstructsRetroCore ==
  [][last'.op = "on_init" =>
       IF environment = None
       THEN last'.panicked /\ last'.calls = <<>> /\ system' = system
       ELSE /\ ~last'.panicked
            /\ last'.calls = <<CoreEnvEv("Core::init", Unwrap(environment))>>
            /\ environment' = environment
            /\ bridge = "RetroInstance" => system' = Some(RetroCoreValue)
            /\ bridge = "Instance" => system' = system]_vars

\* C10 witness: Instance::on_init has returned and no core is held.
C10_Witness ==
  /\ bridge = "Instance"
  /\ last.op = "on_init"
  /\ ~last.panicked
  /\ system = None

(***************************************************************************)
(* Lifecycle states of the bridge, read off the history of calls            *)
(***************************************************************************)
\* a channel is bound: the states from EnvironmentBound on, up to deinit
ChannelBound == environment /= None

\* Initialized or GameUnloaded: a channel is bound, init has returned since
\* construction or the latest deinit, and no game is loaded.  Every other state is
\* one of Unconfigured, EnvironmentBound (before init), GameLoaded, Deinitialized.
LoadGameAllowed == ChannelBound /\ inited /\ ~GameLoaded

\* C11: load_game is accepted only in Initialized or GameUnloaded; called in any
\* other state (Unconfigured, EnvironmentBound before init, GameLoaded,
\* Deinitialized) it aborts without invoking the Core's load-game operation.
C11_LoadGameOnlyWhenAllowed ==
  [][(last'.op = "on_load_game" /\ ~LoadGameAllowed) =>
       (last'.panicked /\ Count(last'.calls, "Core::load_game") = 0)]_vars

\* C12: unload_game aborts, without invoking the Core's unload-game operation, when
\* the bridge is not in GameLoaded; in GameLoaded it invokes the Core's unload-game
\* operation exactly once and leaves the bridge in GameUnloaded.
C12_UnloadNeedsGameLoaded ==
  [][last'.op = "on_unload_game" =>
       IF GameLoaded /\ ChannelBound
       THEN /\ ~last'.panicked
            /\ last'.calls = <<CoreEnvEv("Core::unload_game", Unwrap(environment))>>
            /\ loaded' = None
       ELSE /\ last'.panicked
            /\ Count(last'.calls, "Core::unload_game") = 0]_vars

\* what the bridge answers to get_region / get_system_av_info queries comes from
\* the load the core answered with `ans`
CachesHold(region, av_info, core, ans) ==
  IF bridge = "RetroInstance"
  THEN /\ region = Some(ans.region)
       /\ av_info = Some(RetroSystemAvInfo(ans.audio, ans.video))
  ELSE core = Some(ans)

\* C13: the load/unload cycle repeats without bound.  At every step of every
\* behaviour: an unload_game called in GameLoaded returns; a load_game called next
\* does not abort and calls the Core's load_game once; and when the core answers
\* Success the call returns true, the bridge is in GameLoaded again, and the cached
\* region / av-info are those of the new load.  While GameLoaded, the cached values
\* are those of the latest load.
C13_LoadUnloadCycle ==
  [][/\ GameLoaded => CachesHold(system_region, system_av_info, system, Unwrap(loaded))
     /\ (GameLoaded /\ ChannelBound /\ last'.op = "on_unload_game") =>
          (~last'.panicked /\ ~GameLoaded')
     /\ (last.op = "on_unload_game" /\ ~last.panicked /\ last'.op = "on_load_game") =>
          /\ ~last'.panicked
          /\ Len(last'.calls) = 1
          /\ last'.calls[1].fn = "Core::load_game"
          /\ LET ans == Unwrap(last'.calls[1].ret)
             IN  IF ans = Failure
                 THEN last'.ret = Some(FALSE) /\ ~GameLoaded'
                 ELSE /\ last'.ret = Some(TRUE)
                      /\ loaded' = ans
                      /\ CachesHold(system_region', system_av_info', system', Unwrap(ans))]_vars

\* C13 witness: a game was loaded, an unload_game called while it was loaded has
\* returned, and a load_game after that has succeeded: the bridge is in GameLoaded
\* again and the cached values are those of the new load.
C13_Witness ==
  /\ unloaded
  /\ last.op = "on_load_game"
  /\ last.ret = Some(TRUE)
  /\ GameLoaded
  /\ Unwrap(loaded).region = "PAL"
  /\ CachesHold(system_region, system_av_info, system, Unwrap(loaded))

\* the entry points that hand one call on to the core
Delegates == {"on_serialize_size", "on_serialize", "on_unserialize", "on_cheat_reset",
              "on_cheat_set", "on_reset", "on_get_memory_data", "on_get_memory_size"}

\* C14: serialize_size, serialize, unserialize, cheat_reset, cheat_set, reset,
\* get_memory_data and get_memory_size abort, without calling into the Core, when no
\* core is constructed or no channel is bound; with both present they do not abort.
\* (None of them writes the core slot or the channel.)
C14_DelegatesNeedCoreAndChannel ==
  last.op \in Delegates =>
    IF environment = None \/ system = None
    THEN last.panicked /\ last.calls = <<>>
    ELSE ~last.panicked

\* the Core operation behind a serialization entry point
SerializeOp(op) ==
  CASE op = "on_serialize_size" -> "Core::serialize_size"
    [] op = "on_serialize" -> "Core::serialize"
    [] op = "on_unserialize" -> "Core::unserialize"

\* C15: with a core constructed (and the channel it was constructed through bound),
\* on_serialize_size, on_serialize and on_unserialize invoke the Core's operation
\* exactly once, nothing else, and return exactly what it answered: a 0 or a false
\* comes back as 0 or false, not as an abort and not after a second try.
C15_SerializeReturnsCoreAnswer ==
  (last.op \in {"on_serialize_size", "on_serialize", "on_unserialize"}
     /\ system /= None /\ environment /= None) =>
    /\ ~last.panicked
    /\ Len(last.calls) = 1
    /\ last.calls[1].fn = SerializeOp(last.op)
    /\ last.calls[1].ret /= None
    /\ last.ret = last.calls[1].ret

\* C15 witness: the core declined to serialize and on_serialize returned false.
C15_Witness ==
  /\ last.op = "on_serialize"
  /\ ~last.panicked
  /\ last.calls[1].ret = Some(FALSE)
  /\ last.ret = Some(FALSE)

\* C16: deinit can be called in every state and never aborts; afterwards the core
\* slot, the channel slot and the callback slots audio_sample, audio_sample_batch,
\* input_poll, input_state and video_refresh are all empty.
C16_DeinitReleasesAll ==
  /\ ENABLED (RetroInstance_on_deinit \/ Instance_on_deinit)
  /\ last.op = "on_deinit" =>
       /\ ~last.panicked
       /\ last.calls = <<>>
       /\ system = None
       /\ environment = None
       /\ audio_sample = None
       /\ audio_sample_batch = None
       /\ input_poll = None
       /\ input_state = None
       /\ video_refresh = None

\* C16 witness: deinit has returned on a RetroInstance that had loaded a game (its
\* cached region is still there) and everything it releases is empty.
C16_Witness ==
  /\ last.op = "on_deinit"
  /\ ~last.panicked
  /\ system_region /= None
  /\ system = None
  /\ input_poll = None

(***************************************************************************)
(* The frontend replaces the environment callback: every entry point, with   *)
(* two environment callbacks to choose from and one input for the rest       *)
(***************************************************************************)
EnvCallbacks2 == {"env1", "env2"}
OneGame == Some(retro_game_info(None, Some(<<1, 2, 3, 4>>), 4, None))
OneRetroLoadGameResult ==
  Success([region |-> "NTSC", audio |-> RetroAudioInfo(44100),
           video |-> RetroVideoInfo(60, 256, 240, "RGB1555")])
OneLoadGameResult ==
  Success(CHOOSE c \in Cores : c.region = "NTSC" /\ c.av_info.timing.fps = 60)

\* The host of this specification binds "env1", or in RetroInstance a null callback,
\* at any time, and brings in "env2" only to replace "env1" while it is bound.
HostRebinds(cb) == cb = Some("env2") => environment = Some("env1")

NextChannel ==
  \/ \E cb \in Opt(EnvCallbacks2), hostRet \in BOOLEAN :
       HostRebinds(cb) /\ RetroInstance_on_set_environment(cb, hostRet)
  \/ RetroInstance_on_init
  \/ RetroInstance_on_deinit
  \/ RetroInstance_on_load_game(OneGame, OneRetroLoadGameResult)
  \/ RetroInstance_on_load_game_special(GameInfoSpecial, TRUE)
  \/ RetroInstance_on_unload_game
  \/ RetroInstance_on_get_region
  \/ RetroInstance_on_get_system_av_info(TRUE)
  \/ RetroInstance_on_run(<<>>)
  \/ RetroInstance_on_set_audio_sample(Some("cb1"))
  \/ RetroInstance_on_set_audio_sample_batch(Some("cb1"))
  \/ RetroInstance_on_set_input_poll(Some("cb1"))
  \/ RetroInstance_on_set_input_state(Some("cb1"))
  \/ RetroInstance_on_set_video_refresh(Some("cb1"))
  \/ RetroInstance_on_set_controller_port_device(0, 1)
  \/ RetroInstance_on_reset
  \/ RetroInstance_on_serialize_size(16)
  \/ RetroInstance_on_serialize(TRUE)
  \/ RetroInstance_on_unserialize(TRUE)
  \/ RetroInstance_on_cheat_reset
  \/ RetroInstance_on_cheat_set(CStr("code", TRUE))
  \/ RetroInstance_on_get_memory_data("ptr")
  \/ RetroInstance_on_get_memory_size(16)
  \/ \E env \in EnvCallbacks2 :
       HostRebinds(Some(env)) /\ Instance_on_set_environment(env)
  \/ Instance_on_init
  \/ Instance_on_deinit
  \/ Instance_on_load_game(OneGame, OneLoadGameResult)
  \/ Instance_on_load_game_special(GameInfoSpecial, OneLoadGameResult)
  \/ Instance_on_unload_game
  \/ Instance_on_get_region
  \/ Instance_on_get_system_av_info
  \/ Instance_on_run(<<>>)
  \/ Instance_on_set_audio_sample(Some("cb1"))
  \/ Instance_on_set_audio_sample_batch(Some("cb1"))
  \/ Instance_on_set_input_poll(Some("cb1"))
  \/ Instance_on_set_input_state(Some("cb1"))
  \/ Instance_on_set_video_refresh(Some("cb1"))
  \/ Instance_on_set_controller_port_device(0, 1)
  \/ Instance_on_reset
  \/ Instance_on_serialize_size(16)
  \/ Instance_on_serialize(TRUE)
  \/ Instance_on_unserialize(TRUE)
  \/ Instance_on_cheat_reset
  \/ Instance_on_cheat_set(CStr("code", TRUE))
  \/ Instance_on_get_memory_data(Some(16))
  \/ Instance_on_get_memory_size(Some(16))

SpecChannel == Init /\ [][NextChannel]_vars

(***************************************************************************)
(* A core uses the RetroEnvironment it is handed (lib.rs)                    *)
(***************************************************************************)
\* the "get" selectors of RetroEnvironment
GetKeys == {"RETRO_ENVIRONMENT_GET_LIBRETRO_PATH",
            "RETRO_ENVIRONMENT_GET_CORE_ASSETS_DIRECTORY",
            "RETRO_ENVIRONMENT_GET_SAVE_DIRECTORY",
            "RETRO_ENVIRONMENT_GET_SYSTEM_DIRECTORY",
            "RETRO_ENVIRONMENT_GET_USERNAME"}

\* what a host may do with a "get": return either boolean; leave the slot alone,
\* write a null pointer, or write the address of a string, valid UTF-8 or not
HostGets ==
  {HostGet(ret, write) :
     ret \in BOOLEAN,
     write \in {None, Some(NullPtr), Some(PtrTo(CStr("/dir", TRUE))),
                Some(PtrTo(CStr("bad", FALSE)))}}

\* the observation of a RetroEnvironment operation applied to the bound channel
EnvironmentCall(op, arg, ret, calls, panicked) ==
  /\ bridge = "RetroInstance"
  /\ environment /= None
  /\ last' = WithArg(IF panicked THEN Panicked(op, calls) ELSE Returned(op, ret, calls), arg)
  /\ UNCHANGED <<bridge, SUPPORT_NO_GAME, system, cache, slots, environment, hist>>

\* RetroEnvironment::get on the bound channel
Call_RetroEnvironment_get(key, host) ==
  LET r == RetroEnvironment_get(Unwrap(environment), key, host)
  IN  EnvironmentCall("RetroEnvironment::get", [key |-> key, host |-> host],
                      r.ret, r.calls, FALSE)

\* RetroEnvironment::get_str on the bound channel
Call_RetroEnvironment_get_str(key, host) ==
  LET r == RetroEnvironment_get_str(Unwrap(environment), key, host)
  IN  EnvironmentCall("RetroEnvironment::get_str", [key |-> key, host |-> host],
                      r.ret, r.calls, r.panicked)

\* RetroEnvironment::shutdown on the bound channel
Call_RetroEnvironment_shutdown(hostRet) ==
  LET r == RetroEnvironment_shutdown(Unwrap(environment), hostRet)
  IN  EnvironmentCall("RetroEnvironment::shutdown", [host |-> hostRet],
                      Some(r.ret), r.calls, FALSE)

\* RetroEnvironment::set_pixel_format on the bound channel
Call_RetroEnvironment_set_pixel_format(val, hostRet) ==
  LET r == RetroEnvironment_set_pixel_format(Unwrap(environment), val, hostRet)
  IN  EnvironmentCall("RetroEnvironment::set_pixel_format", [val |-> val, host |-> hostRet],
                      Some(r.ret), r.calls, FALSE)

\* RetroEnvironment::set_support_no_game on the bound channel
Call_RetroEnvironment_set_support_no_game(val, hostRet) ==
  LET r == RetroEnvironment_set_support_no_game(Unwrap(environment), val, hostRet)
  IN  EnvironmentCall("RetroEnvironment::set_support_no_game",
                      [val |-> val, host |-> hostRet], Some(r.ret), r.calls, FALSE)

\* RetroEnvironment::get_libretro_path
RetroEnvironment_get_libretro_path(cb, host) ==
  RetroEnvironment_get_str(cb, "RETRO_ENVIRONMENT_GET_LIBRETRO_PATH", host)

\* RetroEnvironment::get_core_assets_directory
RetroEnvironment_get_core_assets_directory(cb, host) ==
  RetroEnvironment_get_str(cb, "RETRO_ENVIRONMENT_GET_CORE_ASSETS_DIRECTORY", host)

\* RetroEnvironment::get_save_directory
RetroEnvironment_get_save_directory(cb, host) ==
  RetroEnvironment_get_str(cb, "RETRO_ENVIRONMENT_GET_SAVE_DIRECTORY", host)

\* RetroEnvironment::get_system_directory
RetroEnvironment_get_system_directory(cb, host) ==
  RetroEnvironment_get_str(cb, "RETRO_ENVIRONMENT_GET_SYSTEM_DIRECTORY", host)

\* RetroEnvironment::get_username
RetroEnvironment_get_username(cb, host) ==
  RetroEnvironment_get_str(cb, "RETRO_ENVIRONMENT_GET_USERNAME", host)

\* the five queries that fix their selector
NamedQueries == {"get_libretro_path", "get_core_assets_directory", "get_save_directory",
                 "get_system_directory", "get_username"}

\* one of the five, by name, on the bound channel
Call_RetroEnvironment_query(name, host) ==
  LET cb == Unwrap(environment)
      r == CASE name = "get_libretro_path" -> RetroEnvironment_get_libretro_path(cb, host)
             [] name = "get_core_assets_directory" ->
                  RetroEnvironment_get_core_assets_directory(cb, host)
             [] name = "get_save_directory" -> RetroEnvironment_get_save_directory(cb, host)
             [] name = "get_system_directory" ->
                  RetroEnvironment_get_system_directory(cb, host)
             [] name = "get_username" -> RetroEnvironment_get_username(cb, host)
  IN  EnvironmentCall("RetroEnvironment::query", [name |-> name, host |-> host],
                      r.ret, r.calls, r.panicked)

\* the "set" selectors of RetroEnvironment and the u32 payloads a core sends
SetKeys == {"RETRO_ENVIRONMENT_SET_PIXEL_FORMAT", "RETRO_ENVIRONMENT_SET_SUPPORT_NO_GAME"}
U32Payloads == {0, 2}

\* RetroEnvironment::set_bool on the bound channel
Call_RetroEnvironment_set_bool(key, val, hostRet) ==
  LET r == RetroEnvironment_set_bool(Unwrap(environment), key, val, hostRet)
  IN  EnvironmentCall("RetroEnvironment::set_bool",
                      [key |-> key, val |-> val, host |-> hostRet], Some(r.ret), r.calls, FALSE)

\* RetroEnvironment::set_u32 on the bound channel
Call_RetroEnvironment_set_u32(key, val, hostRet) ==
  LET r == RetroEnvironment_set_u32(Unwrap(environment), key, val, hostRet)
  IN  EnvironmentCall("RetroEnvironment::set_u32",
                      [key |-> key, val |-> val, host |-> hostRet], Some(r.ret), r.calls, FALSE)

\* a load answered with the third pixel format and a wider maximum
RetroLoadGameResultRGB565 ==
  Success([region |-> "PAL", audio |-> RetroAudioInfo(32000),
           video |-> [RetroVideoInfo(50, 160, 144, "RGB565") EXCEPT
                        !.max_width = 320, !.max_height = 288]])

InitEnvironment == Init /\ bridge = "RetroInstance"

NextEnvironment ==
  \/ \E cb \in Opt(EnvCallbacks2), hostRet \in BOOLEAN :
       RetroInstance_on_set_environment(cb, hostRet)
  \/ RetroInstance_on_init
  \/ RetroInstance_on_deinit
  \/ \E game \in GameInfosSmall,
          result \in RetroLoadGameResultsSmall \cup {RetroLoadGameResultRGB565} :
       RetroInstance_on_load_game(game, result)
  \/ \E hostRet \in BOOLEAN : RetroInstance_on_get_system_av_info(hostRet)
  \/ \E key \in GetKeys, host \in HostGets : Call_RetroEnvironment_get(key, host)
  \/ \E key \in GetKeys, host \in HostGets : Call_RetroEnvironment_get_str(key, host)
  \/ \E hostRet \in BOOLEAN : Call_RetroEnvironment_shutdown(hostRet)
  \/ \E val \in PixelFormats, hostRet \in BOOLEAN :
       Call_RetroEnvironment_set_pixel_format(val, hostRet)
  \/ \E val \in BOOLEAN, hostRet \in BOOLEAN :
       Call_RetroEnvironment_set_support_no_game(val, hostRet)
  \/ \E name \in NamedQueries, host \in HostGets : Call_RetroEnvironment_query(name, host)
  \/ \E key \in SetKeys, val \in BOOLEAN, hostRet \in BOOLEAN :
       Call_RetroEnvironment_set_bool(key, val, hostRet)
  \/ \E key \in SetKeys, val \in U32Payloads, hostRet \in BOOLEAN :
       Call_RetroEnvironment_set_u32(key, val, hostRet)

SpecEnvironment == InitEnvironment /\ [][NextEnvironment]_vars

\* the host callbacks a frame goes through
FrameCallbacks == {"input_poll", "audio_sample", "audio_sample_batch", "input_state",
                   "video_refresh"}

\* the event is an invocation of an environment callback by the bridge, or a call
\* into the core, which is handed the environment callback
UsesChannel(e) == e.fn \notin FrameCallbacks

\* C17: the bridge invokes an environment callback (or hands one to the core) only
\* between a set_environment call and the next deinit, and it is always the callback
\* the most recent set_environment supplied: an entry point called before the first
\* set_environment, or after deinit and before a new one, causes no such invocation.
C17_ChannelWindow ==
  \A i \in 1..Len(last.calls) :
    UsesChannel(last.calls[i]) =>
      (channel /= None /\ last.calls[i].cb = Unwrap(channel))

\* C17 witness: after a deinit the host supplied a callback again, and the bridge sent
\* SET_PIXEL_FORMAT through that one.
C17_Witness ==
  /\ last.op = "on_get_system_av_info"
  /\ ~last.panicked
  /\ last.calls[1].fn = "environment"
  /\ last.calls[1].cb = "env2"
  /\ deinited

\* C18: Deinitialized is terminal: once deinit has been called on an instance value,
\* no later sequence of entry-point calls brings it to a state where a core is
\* constructed or a game is loaded.
C18_DeinitializedTerminal == deinited => (system = None /\ ~GameLoaded)

\* the host declined the "get", or left a null pointer in the output slot
GetDeclined(host) == ~host.ret \/ host.write = None \/ host.write = Some(NullPtr)

\* C19: RetroEnvironment::get, and get_str built on it, return an absent result
\* whenever the host callback returns false or leaves / writes a null pointer in the
\* output slot, and a present result only when it returned true and the slot is not
\* null.  The slot handed to the host holds a null pointer, so a host that returns
\* true without writing yields absent, and no null pointer is read through.
C19_GetAbsentOnNull ==
  last.op \in {"RetroEnvironment::get", "RetroEnvironment::get_str"} =>
    LET host == Unwrap(last.arg).host
    IN  /\ ~last.panicked
        /\ Len(last.calls) = 1
        /\ last.calls[1].key = Unwrap(last.arg).key
        /\ last.calls[1].data = Some([output |-> NullPtr])
        /\ GetDeclined(host) => last.ret = None
        /\ last.ret /= None => ~GetDeclined(host)
        /\ (last.op = "RetroEnvironment::get" /\ ~GetDeclined(host)) =>
             last.ret = Some(Unwrap(host.write))
        /\ (last.op = "RetroEnvironment::get_str" /\ ~GetDeclined(host)) =>
             last.ret = to_str(Unwrap(Unwrap(host.write)))

\* C19 witness: the host answered true to a get_str without writing, and the result
\* is absent.
C19_Witness ==
  /\ last.op = "RetroEnvironment::get_str"
  /\ Unwrap(last.arg).host = HostGet(TRUE, None)
  /\ ~last.panicked
  /\ last.ret = None

\* the boolean the host returned to the one environment call of the latest operation
HostAnswer == last.calls[1].ret

\* C20: a host environment callback returning false is never fatal.
\* set_environment with a callback completes and stores it when
\* SET_SUPPORT_NO_GAME is declined; get_system_av_info, with cached av-info and a
\* channel, completes and fills the record when SET_PIXEL_FORMAT is declined;
\* shutdown, set_pixel_format and set_support_no_game return exactly the boolean the
\* host returned.
C20_DeclineIsNotFatal ==
  /\ (last.op = "on_set_environment" /\ channel /= None) =>
       (~last.panicked /\ environment = channel)
  /\ (last.op = "on_get_system_av_info" /\ system_av_info /= None /\ environment /= None) =>
       /\ ~last.panicked
       /\ last.ret = Some(retro_system_av_info(Unwrap(system_av_info)))
  /\ last.op \in {"RetroEnvironment::shutdown", "RetroEnvironment::set_pixel_format",
                  "RetroEnvironment::set_support_no_game"} =>
       /\ ~last.panicked
       /\ Len(last.calls) = 1
       /\ last.ret = Some(Unwrap(last.arg).host)
       /\ HostAnswer = Some(BoolToByte(Unwrap(last.arg).host))

\* C20 witness: the host declined SET_PIXEL_FORMAT and get_system_av_info filled the
\* record all the same.
C20_Witness ==
  /\ last.op = "on_get_system_av_info"
  /\ ~last.panicked
  /\ HostAnswer = Some(0)
  /\ last.ret /= None

(***************************************************************************)
(* Runtime operations with their arguments, applied during a frame         *)
(***************************************************************************)
\* the longest sample buffer a core uploads
MaxSamples == 4

Callbacks2 == {"cb1", "cb2"}

\* `frame: &[i16]`: interleaved samples; only their number matters to the bridge
SampleBuffers == {[i \in 1..n |-> 0] : n \in 0..MaxSamples}

\* what a host's audio-batch callback may answer (a usize)
HostCounts == 0..MaxSamples

\* the call `cb(frame.as_ptr(), frames)` of retro_audio_sample_batch_t
AudioBatchEv(cb, frame, frames, hostRet) ==
  Ev("audio_sample_batch", cb, "-", Some([data |-> frame, frames |-> frames]), Some(hostRet))

\* upload_audio_frame had it forwarded the number of samples
RetroRuntime_upload_audio_frame_samples(rt, frame, hostRet) ==
  [calls |-> <<AudioBatchEv(Unwrap(rt.audio_sample_batch), frame, Len(frame), hostRet)>>,
   panicked |-> FALSE, ret |-> Some(hostRet)]

\* RetroRuntime::upload_audio_frame (lib.rs): the slot was unwrapped by new
RetroRuntime_upload_audio_frame(rt, frame, hostRet) ==
  [calls |-> <<AudioBatchEv(Unwrap(rt.audio_sample_batch), frame, Len(frame) \div 2, hostRet)>>,
   panicked |-> FALSE, ret |-> Some(hostRet)]

\* Runtime::upload_audio_frame (retro/mod.rs): `expect` on the slot, then the call
Runtime_upload_audio_frame(rt, frame, hostRet) ==
  IF rt.audio_sample_batch = None
  THEN [calls |-> <<>>, panicked |-> TRUE, ret |-> None]
  ELSE [calls |-> <<AudioBatchEv(Unwrap(rt.audio_sample_batch), frame,
                                 Len(frame) \div 2, hostRet)>>,
        panicked |-> FALSE, ret |-> Some(hostRet)]

\* a Runtime operation's outcome, observed as a call of its own
RuntimeCall(op, arg, out) ==
  /\ last' = [op |-> op, arg |-> Some(arg), panicked |-> out.panicked,
              ret |-> out.ret, calls |-> out.calls]
  /\ UNCHANGED <<bridge, SUPPORT_NO_GAME, system, cache, slots, environment, hist>>

\* the core of a RetroInstance, inside on_run, uploads a sample buffer: on_run
\* reached core.run, so input_poll, the channel, the runtime and the core exist
Call_RetroRuntime_upload_audio_frame(frame, hostRet) ==
  /\ bridge = "RetroInstance"
  /\ input_poll /= None /\ environment /= None /\ system /= None
  /\ RetroRuntime_new(audio_sample, audio_sample_batch, input_state, video_refresh) /= None
  /\ RuntimeCall("upload_audio_frame", frame,
       RetroRuntime_upload_audio_frame(
         Unwrap(RetroRuntime_new(audio_sample, audio_sample_batch, input_state, video_refresh)),
         frame, hostRet))

\* the core of an Instance, inside on_run, uploads a sample buffer
Call_Runtime_upload_audio_frame(frame, hostRet) ==
  /\ bridge = "Instance"
  /\ input_poll /= None /\ environment /= None /\ system /= None
  /\ RuntimeCall("upload_audio_frame", frame,
       Runtime_upload_audio_frame(
         Runtime_new(audio_sample, audio_sample_batch, input_state, video_refresh),
         frame, hostRet))

\* the frame just run went through host callback `cb` as `fn`
RanThrough(fn, cb) ==
  /\ last.op = "on_run" /\ ~last.panicked
  /\ \E i \in 1..Len(last.calls) : last.calls[i].fn = fn /\ last.calls[i].cb = cb

\* The host of this specification registers "cb1" or nothing at any time, and brings
\* in "cb2" only to replace "cb1" right after a frame that went through it.
HostRegisters(fn, cb) == cb = Some("cb2") => RanThrough(fn, "cb1")

\* Both bridges with that host, one input for the rest, and the cores' uploads.
NextRuntime ==
  \/ \E hostRet \in BOOLEAN : RetroInstance_on_set_environment(Some("env1"), hostRet)
  \/ RetroInstance_on_init
  \/ RetroInstance_on_load_game(OneGame, OneRetroLoadGameResult)
  \/ RetroInstance_on_unload_game
  \/ \E script \in Scripts : RetroInstance_on_run(script)
  \/ \E cb \in Opt({"cb1"}) : RetroInstance_on_set_input_poll(cb)
  \/ \E cb \in Opt(Callbacks2) :
       HostRegisters("audio_sample", cb) /\ RetroInstance_on_set_audio_sample(cb)
  \/ \E cb \in Opt(Callbacks2) :
       HostRegisters("audio_sample_batch", cb) /\ RetroInstance_on_set_audio_sample_batch(cb)
  \/ \E cb \in Opt(Callbacks2) :
       HostRegisters("input_state", cb) /\ RetroInstance_on_set_input_state(cb)
  \/ \E cb \in Opt(Callbacks2) :
       HostRegisters("video_refresh", cb) /\ RetroInstance_on_set_video_refresh(cb)
  \/ \E frame \in SampleBuffers, hostRet \in HostCounts :
       Call_RetroRuntime_upload_audio_frame(frame, hostRet)
  \/ Instance_on_set_environment("env1")
  \/ Instance_on_init
  \/ Instance_on_load_game(OneGame, OneLoadGameResult)
  \/ Instance_on_unload_game
  \/ \E script \in Scripts : Instance_on_run(script)
  \/ \E cb \in Opt({"cb1"}) : Instance_on_set_input_poll(cb)
  \/ \E cb \in Opt(Callbacks2) :
       HostRegisters("audio_sample", cb) /\ Instance_on_set_audio_sample(cb)
  \/ \E cb \in Opt(Callbacks2) :
       HostRegisters("audio_sample_batch", cb) /\ Instance_on_set_audio_sample_batch(cb)
  \/ \E cb \in Opt(Callbacks2) :
       HostRegisters("input_state", cb) /\ Instance_on_set_input_state(cb)
  \/ \E cb \in Opt(Callbacks2) :
       HostRegisters("video_refresh", cb) /\ Instance_on_set_video_refresh(cb)
  \/ \E frame \in SampleBuffers, hostRet \in HostCounts :
       Call_Runtime_upload_audio_frame(frame, hostRet)

SpecRuntime == Init /\ [][NextRuntime]_vars

\* an upload_audio_frame call that reached the host
AudioFrameUploaded ==
  last.op = "upload_audio_frame" /\ ~last.panicked

\* C21 (as stated): for a buffer of n samples upload_audio_frame forwards
\* floor(n / 2) frames, so forwarded x 2 <= n, and its result x 2 <= n.
C21_AudioResultWithinBuffer ==
  AudioFrameUploaded =>
    LET n == Len(Unwrap(last.arg))
        forwarded == Unwrap(last.calls[1].data).frames
    IN  /\ Len(last.calls) = 1
        /\ last.calls[1].fn = "audio_sample_batch"
        /\ forwarded = n \div 2
        /\ forwarded * 2 <= n
        /\ Unwrap(last.ret) * 2 <= n

\* C21 (amended): for a buffer of n samples upload_audio_frame calls the audio-batch
\* callback once with floor(n / 2) frames, so forwarded x 2 <= n and n - forwarded x 2
\* is 0 or 1 (a trailing odd sample is dropped); its result is the host's answer
\* unchanged, so result x 2 <= n exactly when the host answers no more than it was given.
C21_AudioFrameCount ==
  AudioFrameUploaded =>
    LET n == Len(Unwrap(last.arg))
        forwarded == Unwrap(last.calls[1].data).frames
    IN  /\ Len(last.calls) = 1
        /\ last.calls[1].fn = "audio_sample_batch"
        /\ forwarded = n \div 2
        /\ forwarded * 2 <= n
        /\ n - forwarded * 2 \in {0, 1}
        /\ last.ret = last.calls[1].ret
        /\ (Unwrap(last.calls[1].ret) <= forwarded => Unwrap(last.ret) * 2 <= n)

\* an odd buffer of 3 samples went out as 1 frame and the host consumed it
C21_Witness ==
  /\ AudioFrameUploaded
  /\ Len(Unwrap(last.arg)) = 3
  /\ Unwrap(last.calls[1].data).frames = 1
  /\ last.ret = Some(1)

(***************************************************************************)
(* Game records and strings as a host may pass them                        *)
(***************************************************************************)
\* path and meta pointers: null, a UTF-8 string, a string that is not UTF-8
PathPointers == {NullPtr, PtrTo(CStr("/rom", TRUE)), PtrTo(CStr("bad", FALSE))}
MetaPointers == {NullPtr, PtrTo(CStr("meta", TRUE)), PtrTo(CStr("bad", FALSE))}

\* data pointer and size: null, an empty buffer, the 4 bytes of the spec's example,
\* the first 2 bytes of a longer buffer
DataAndSizes == {<<NullPtr, 0>>, <<PtrTo(<<>>), 0>>, <<PtrTo(<<1, 2, 3, 4>>), 4>>,
                 <<PtrTo(<<5, 6, 7>>), 2>>}

GameInfos ==
  {retro_game_info(path, ds[1], ds[2], meta) :
     path \in PathPointers, ds \in DataAndSizes, meta \in MetaPointers}

\* a conversion applied to a wire record, observed as a call of its own
ConversionCall(b, op, game, panicked, ret) ==
  /\ bridge = b
  /\ last' = [op |-> op, arg |-> Some(game), panicked |-> panicked,
              ret |-> IF panicked THEN None ELSE Some(ret), calls |-> <<>>]
  /\ UNCHANGED <<bridge, SUPPORT_NO_GAME, system, cache, slots, environment, hist>>

\* RetroGame::from(&retro_game_info)
Call_RetroGame_from(game) ==
  /\ bridge = "RetroInstance"
  /\ ConversionCall("RetroInstance", "RetroGame::from", game,
                    RetroGame_from(game).panicked, RetroGame_from(game))

\* Game::from(&retro_game_info)
Call_Game_from(game) ==
  /\ bridge = "Instance"
  /\ ConversionCall("Instance", "Game::from", game, FALSE, Game_from(game))

\* Both bridges with the game records and strings above: the conversions on their
\* own, the entry points that convert, and get_str on the bound channel.
NextGame ==
  \/ \E hostRet \in BOOLEAN : RetroInstance_on_set_environment(Some("env1"), hostRet)
  \/ RetroInstance_on_init
  \/ \E game \in Opt(GameInfos) : RetroInstance_on_load_game(game, OneRetroLoadGameResult)
  \/ \E game \in GameInfos : RetroInstance_on_load_game_special(game, FALSE)
  \/ \E code \in Codes : RetroInstance_on_cheat_set(code)
  \/ \E game \in GameInfos : Call_RetroGame_from(game)
  \/ \E key \in GetKeys, host \in HostGets : Call_RetroEnvironment_get_str(key, host)
  \/ Instance_on_set_environment("env1")
  \/ Instance_on_init
  \/ \E game \in Opt(GameInfos) : Instance_on_load_game(game, OneLoadGameResult)
  \/ \E game \in GameInfos : Instance_on_load_game_special(game, Failure)
  \/ \E code \in Codes : Instance_on_cheat_set(code)
  \/ \E game \in GameInfos : Call_Game_from(game)

SpecGame == Init /\ [][NextGame]_vars

\* a wire record was converted; what went in and what came out
GameConverted == last.op \in {"RetroGame::from", "Game::from"}

\* the slice has exactly `size` bytes, the first `size` bytes of the buffer, in order
SameBytes(slice, buf, size) ==
  /\ Len(slice) = size
  /\ \A i \in 1..size : slice[i] = buf[i]

\* meta is present iff the meta pointer is non-null and the string is well-formed:
\* valid UTF-8 for RetroGame's &str, any C string for Game's &CStr
MetaPresentIffWellFormed ==
  LET game == Unwrap(last.arg)
      g == Unwrap(last.ret)
  IN  IF last.op = "RetroGame::from"
      THEN /\ (g.meta /= None) = (game.meta /= NullPtr /\ Unwrap(game.meta).utf8)
           /\ (g.meta /= None => g.meta = Some(Unwrap(game.meta).text))
      ELSE /\ (g.meta /= None) = (game.meta /= NullPtr)
           /\ (g.meta /= None => g.meta = game.meta)

\* the three shapes of C22 for a conversion that returned
ShapesAsClaimed ==
  LET game == Unwrap(last.arg)
      g == Unwrap(last.ret)
  IN  /\ (game.data /= NullPtr /\ game.path = NullPtr) =>
           /\ g.variant = "Data"
           /\ SameBytes(Unwrap(g.data), Unwrap(game.data), game.size)
           /\ g.path = None
      /\ (game.data = NullPtr /\ game.path = NullPtr) =>
           g.variant = "None" /\ g.data = None /\ g.path = None
      /\ (game.data = NullPtr /\ game.path /= NullPtr) =>
           g.variant = "Path" /\ g.path /= None /\ g.data = None
      /\ MetaPresentIffWellFormed

\* C22: a record with data (n bytes, size n) and a null path becomes the Data variant
\* with exactly those n bytes and no path; both pointers null becomes None; a path
\* with null data becomes Path; meta is present iff its pointer is non-null (and
\* well-formed).
C22_GameShapes ==
  GameConverted => (~last.panicked /\ ShapesAsClaimed)

\* the same for every record whose path, when there is one, is valid UTF-8, and for
\* every record whatsoever in Game::from
C22_GameShapesValidPath ==
  (GameConverted /\ ~last.panicked) => ShapesAsClaimed

\* RetroGame::from aborted on a record with a path and no data
C22_PathAborts ==
  /\ last.op = "RetroGame::from"
  /\ last.panicked
  /\ Unwrap(last.arg).data = NullPtr
  /\ Unwrap(last.arg).path /= NullPtr

\* an entry point that converts a string, called with the channel bound and, where
\* the entry point needs one, a core constructed
ConvertingEntryPoint ==
  /\ last.op \in {"on_load_game", "on_load_game_special", "on_cheat_set"}
  /\ environment /= None
  /\ (bridge = "RetroInstance" \/ last.op = "on_cheat_set") => system /= None

\* C23: a string from the host that is not valid UTF-8 never aborts the bridge and
\* is surfaced as an absent value: in get_str, in the game record's meta and path
\* (load_game, load_game_special), and in the code of cheat_set.
C23_InvalidUtf8IsAbsent ==
  /\ last.op = "RetroEnvironment::get_str" =>
       /\ ~last.panicked
       /\ (Unwrap(last.arg).host.write = Some(PtrTo(CStr("bad", FALSE))) => last.ret = None)
  /\ GameConverted =>
       /\ ~last.panicked
       /\ ((last.op = "RetroGame::from" /\ Unwrap(last.arg).meta = PtrTo(CStr("bad", FALSE)))
             => Unwrap(last.ret).meta = None)
  /\ ConvertingEntryPoint => ~last.panicked

\* the part of C23 that holds: get_str and the meta of RetroGame::from
C23_GetStrAndMetaAbsent ==
  /\ last.op = "RetroEnvironment::get_str" =>
       /\ ~last.panicked
       /\ (Unwrap(last.arg).host.write = Some(PtrTo(CStr("bad", FALSE))) => last.ret = None)
  /\ (/\ GameConverted /\ ~last.panicked /\ last.op = "RetroGame::from"
      /\ Unwrap(last.arg).meta = PtrTo(CStr("bad", FALSE)))
       => Unwrap(last.ret).meta = None

\* Instance::on_cheat_set aborted with a channel and a core in place
C23_CheatSetAborts ==
  bridge = "Instance" /\ last.op = "on_cheat_set" /\ last.panicked /\ ConvertingEntryPoint

\* RetroInstance::on_load_game_special aborted with a channel and a core in place
C23_LoadGameSpecialAborts ==
  /\ bridge = "RetroInstance" /\ last.op = "on_load_game_special"
  /\ last.panicked /\ ConvertingEntryPoint

(***************************************************************************)
(* A core that overrides none of the optional operations                   *)
(***************************************************************************)
\* the default bodies of trait RetroCore (lib.rs)
RetroCore_default ==
  [serialize_size |-> 0, serialize |-> FALSE, unserialize |-> FALSE,
   load_game_special |-> FALSE, get_memory_data |-> "null", get_memory_size |-> 0]

\* the default bodies of trait Core (retro/mod.rs)
Core_default ==
  [serialize_size |-> 0, serialize |-> FALSE, unserialize |-> FALSE,
   load_game_special |-> Failure, get_memory_data |-> None]

\* Both bridges around such a core: the lifecycle, two of the setters, and the
\* optional operations answered by the defaults.
NextDefaults ==
  \/ \E hostRet \in BOOLEAN : RetroInstance_on_set_environment(Some("env1"), hostRet)
  \/ RetroInstance_on_init
  \/ RetroInstance_on_deinit
  \/ \E result \in RetroLoadGameResultsSmall : RetroInstance_on_load_game(OneGame, result)
  \/ \E cb \in Opt(Callbacks) : RetroInstance_on_set_input_poll(cb)
  \/ \E cb \in Opt(Callbacks) : RetroInstance_on_set_video_refresh(cb)
  \/ \E port \in Ports, device \in DeviceCodes :
       RetroInstance_on_set_controller_port_device(port, device)
  \/ RetroInstance_on_serialize_size(RetroCore_default.serialize_size)
  \/ RetroInstance_on_serialize(RetroCore_default.serialize)
  \/ RetroInstance_on_unserialize(RetroCore_default.unserialize)
  \/ RetroInstance_on_cheat_reset
  \/ \E code \in Codes : RetroInstance_on_cheat_set(code)
  \/ RetroInstance_on_load_game_special(GameInfoSpecial, RetroCore_default.load_game_special)
  \/ RetroInstance_on_unload_game
  \/ RetroInstance_on_get_memory_data(RetroCore_default.get_memory_data)
  \/ RetroInstance_on_get_memory_size(RetroCore_default.get_memory_size)
  \/ Instance_on_set_environment("env1")
  \/ Instance_on_init
  \/ Instance_on_deinit
  \/ \E result \in LoadGameResultsSmall : Instance_on_load_game(OneGame, result)
  \/ \E cb \in Opt(Callbacks) : Instance_on_set_input_poll(cb)
  \/ \E cb \in Opt(Callbacks) : Instance_on_set_video_refresh(cb)
  \/ \E port \in Ports, device \in DeviceCodes :
       Instance_on_set_controller_port_device(port, device)
  \/ Instance_on_serialize_size(Core_default.serialize_size)
  \/ Instance_on_serialize(Core_default.serialize)
  \/ Instance_on_unserialize(Core_default.unserialize)
  \/ Instance_on_cheat_reset
  \/ \E code \in Codes : Instance_on_cheat_set(code)
  \/ Instance_on_load_game_special(GameInfoSpecial, Core_default.load_game_special)
  \/ Instance_on_unload_game
  \/ Instance_on_get_memory_data(Core_default.get_memory_data)
  \/ Instance_on_get_memory_size(Core_default.get_memory_data)

SpecDefaults == Init /\ [][NextDefaults]_vars

\* the entry points over the optional operations, and what the claim says each returns
OptionalOps ==
  {"on_serialize_size", "on_serialize", "on_unserialize", "on_load_game_special",
   "on_get_memory_data", "on_get_memory_size", "on_set_controller_port_device",
   "on_cheat_reset", "on_cheat_set", "on_unload_game"}

DefaultReturn(op) ==
  CASE op \in {"on_serialize_size", "on_get_memory_size"} -> Some(0)
    [] op \in {"on_serialize", "on_unserialize", "on_load_game_special"} -> Some(FALSE)
    [] op = "on_get_memory_data" -> Some("null")
    [] OTHER -> None

\* the fields C24 says stay as they were
BridgeFields == <<system, environment, slots, cache>>

\* C24: with a core that overrides no optional operation constructed (and the channel
\* bound), serialize_size returns 0, serialize / unserialize / load_game_special
\* return false, get_memory_data null, get_memory_size 0, the other four return
\* normally, and none of them changes the core slot, the channel, the callback slots
\* or the cached region / av-info.
C24_DefaultsAreNoOps ==
  [][(system /= None /\ environment /= None /\ last'.op \in OptionalOps) =>
       /\ ~last'.panicked
       /\ last'.ret = DefaultReturn(last'.op)
       /\ UNCHANGED BridgeFields]_vars

\* what does hold: the same, leaving out Instance::on_load_game_special's effect on
\* the core slot, cheat_set with a code that is not UTF-8 in Instance, and a device
\* code above 6 in RetroInstance
C24_DefaultsExceptThree ==
  [][(system /= None /\ environment /= None /\ last'.op \in OptionalOps) =>
       IF last'.panicked
       THEN \/ bridge = "Instance" /\ last'.op = "on_cheat_set"
            \/ bridge = "RetroInstance" /\ last'.op = "on_set_controller_port_device"
       ELSE /\ last'.ret = DefaultReturn(last'.op)
            /\ UNCHANGED <<environment, slots, cache>>
            /\ (bridge = "Instance" /\ last'.op = "on_load_game_special") \/ UNCHANGED system
     ]_vars

\* Instance::on_load_game_special answered false and the core slot is empty
C24_SpecialDropsCore ==
  /\ bridge = "Instance"
  /\ last.op = "on_load_game_special" /\ last.ret = Some(FALSE)
  /\ system = None /\ built = FALSE /\ environment /= None

\* C25: a run call that returns normally invokes the Core's run operation exactly
\* once and leaves the core slot, the channel, the five callback slots and the cached
\* region and av-info as they were.
C25_RunChangesNothing ==
  [][(last'.op = "on_run" /\ ~last'.panicked) =>
       /\ Count(last'.calls, "Core::run") = 1
       /\ UNCHANGED BridgeFields]_vars

\* a frame that returned normally after the core used the runtime
C25_Witness ==
  /\ last.op = "on_run" /\ ~last.panicked
  /\ Count(last.calls, "Core::run") = 1
  /\ Unwrap(last.arg) /= <<>>
  /\ GameLoaded

\* the bridge's slot for the host callback `fn`
SlotNamed(fn) ==
  CASE fn = "input_poll" -> input_poll
    [] fn = "audio_sample" -> audio_sample
    [] fn = "audio_sample_batch" -> audio_sample_batch
    [] fn = "input_state" -> input_state
    [] fn = "video_refresh" -> video_refresh

\* C26: the Runtime of a run call is built from what the four callback slots hold at
\* the moment of that call: every host callback a frame invokes is the one its slot
\* holds when on_run is entered, so after a setter has replaced a callback the next
\* frame goes through the new one and never through the old one.
C26_RuntimeFromCurrentSlots ==
  [][last'.op = "on_run" =>
       \A i \in 1..Len(last'.calls) :
         last'.calls[i].fn \in FrameCallbacks =>
           SlotNamed(last'.calls[i].fn) = Some(last'.calls[i].cb)]_vars

\* a frame went through "cb2": by HostRegisters an earlier frame went through "cb1"
\* in the same slot and a setter replaced it in between
C26_Witness ==
  /\ last.op = "on_run" /\ ~last.panicked
  /\ \E i \in 1..Len(last.calls) :
       /\ last.calls[i].fn \in FrameCallbacks
       /\ last.calls[i].cb = "cb2"
       /\ SlotNamed(last.calls[i].fn) = Some("cb2")

\* the callback a set_environment call was given: it is the one the call went through
SetEnvironmentArg(obs) == IF obs.calls = <<>> THEN None ELSE Some(obs.calls[1].cb)

\* C27: set_environment stores the callback it is given and touches nothing else, so
\* a second call with the same callback leaves the bridge as the first did, and after
\* set_environment(cb2) every later entry point goes through cb2; the core slot, the
\* callback slots and the cached region / av-info are not changed by it.
C27_SetEnvironmentReplaces ==
  [][/\ last'.op = "on_set_environment" =>
          /\ UNCHANGED <<system, slots, cache>>
          /\ environment' = SetEnvironmentArg(last')
          /\ (last.op = "on_set_environment" /\ SetEnvironmentArg(last') = SetEnvironmentArg(last))
               => UNCHANGED BridgeFields
     /\ last'.op /= "on_set_environment" =>
          \A i \in 1..Len(last'.calls) :
            UsesChannel(last'.calls[i]) => environment = Some(last'.calls[i].cb)
    ]_vars

\* "env2" has replaced "env1" with a core in place and a callback registered, and an
\* entry point called since went through "env2"
C27_Witness ==
  /\ environment = Some("env2")
  /\ system /= None /\ input_poll /= None
  /\ last.op \notin {"on_set_environment", "new"}
  /\ \E i \in 1..Len(last.calls) : UsesChannel(last.calls[i]) /\ last.calls[i].cb = "env2"

\* the codes C28 gives for the pixel formats
ClaimedPixelFormatCode(f) ==
  CASE f = "RGB1555" -> 0 [] f = "XRGB8888" -> 1 [] f = "RGB565" -> 2

\* the SET_PIXEL_FORMAT calls among `calls`
PixelFormatCalls(calls) == CountKey(calls, "RETRO_ENVIRONMENT_SET_PIXEL_FORMAT")

\* C28: every RetroInstance::on_get_system_av_info call made in GameLoaded (with the
\* channel bound) sends SET_PIXEL_FORMAT through the channel exactly once, carrying the
\* code of the cached video info's pixel format (RGB1555 = 0, XRGB8888 = 1,
\* RGB565 = 2), and fills the record with the cached width, height, max width, max
\* height, aspect ratio, frame rate and sample rate; this happens on each call,
\* whatever the call before it was.
C28_PixelFormatSentEachCall ==
  [][(/\ bridge = "RetroInstance" /\ last'.op = "on_get_system_av_info"
      /\ GameLoaded /\ ChannelBound) =>
       LET video == Unwrap(system_av_info).video
           audio == Unwrap(system_av_info).audio
           info == Unwrap(last'.ret)
       IN  /\ ~last'.panicked
           /\ Len(last'.calls) = 1
           /\ PixelFormatCalls(last'.calls) = 1
           /\ last'.calls[1].cb = Unwrap(environment)
           /\ last'.calls[1].data = Some(ClaimedPixelFormatCode(video.pixel_format))
           /\ info.geometry.base_width = video.width
           /\ info.geometry.base_height = video.height
           /\ info.geometry.max_width = video.max_width
           /\ info.geometry.max_height = video.max_height
           /\ info.geometry.aspect_ratio = video.aspect_ratio
           /\ info.timing.fps = video.frame_rate
           /\ info.timing.sample_rate = audio.sample_rate
           /\ UNCHANGED cache]_vars

\* a get_system_av_info call in GameLoaded sent the code 2 of the cached RGB565 and
\* filled the record with a maximum that differs from the base size
C28_Witness ==
  /\ bridge = "RetroInstance" /\ last.op = "on_get_system_av_info" /\ ~last.panicked
  /\ GameLoaded /\ ChannelBound
  /\ Unwrap(system_av_info).video.pixel_format = "RGB565"
  /\ PixelFormatCalls(last.calls) = 1
  /\ last.calls[1].data = Some(2)
  /\ Unwrap(last.ret).geometry.max_width = 320
  /\ Unwrap(last.ret).geometry.base_width = 160

\* the typed operations of RetroEnvironment, as observed
TypedEnvironmentOps ==
  {"RetroEnvironment::shutdown", "RetroEnvironment::set_pixel_format",
   "RetroEnvironment::set_support_no_game", "RetroEnvironment::query",
   "RetroEnvironment::get_str", "RetroEnvironment::get",
   "RetroEnvironment::set_bool", "RetroEnvironment::set_u32"}

\* the selector C29 fixes for an observed operation: a constant of the operation,
\* or the key it was called with
ClaimedSelector(obs) ==
  LET arg == Unwrap(obs.arg)
  IN  CASE obs.op = "RetroEnvironment::shutdown" -> "RETRO_ENVIRONMENT_SHUTDOWN"
        [] obs.op = "RetroEnvironment::set_pixel_format" ->
             "RETRO_ENVIRONMENT_SET_PIXEL_FORMAT"
        [] obs.op = "RetroEnvironment::set_support_no_game" ->
             "RETRO_ENVIRONMENT_SET_SUPPORT_NO_GAME"
        [] obs.op = "RetroEnvironment::query" ->
             (CASE arg.name = "get_libretro_path" -> "RETRO_ENVIRONMENT_GET_LIBRETRO_PATH"
                [] arg.name = "get_core_assets_directory" ->
                     "RETRO_ENVIRONMENT_GET_CORE_ASSETS_DIRECTORY"
                [] arg.name = "get_save_directory" -> "RETRO_ENVIRONMENT_GET_SAVE_DIRECTORY"
                [] arg.name = "get_system_directory" ->
                     "RETRO_ENVIRONMENT_GET_SYSTEM_DIRECTORY"
                [] arg.name = "get_username" -> "RETRO_ENVIRONMENT_GET_USERNAME")
        [] OTHER -> arg.key

\* C29: every typed RetroEnvironment operation invokes the wrapped host callback
\* exactly once per call, with the selector fixed for that operation (for get_str,
\* get, set_bool and set_u32: the key given); the command shutdown passes a null
\* payload.
C29_OneRawCallEach ==
  last.op \in TypedEnvironmentOps =>
    /\ Len(last.calls) = 1
    /\ last.calls[1].fn = "environment"
    /\ last.calls[1].cb = Unwrap(environment)
    /\ last.calls[1].key = ClaimedSelector(last)
    /\ (last.op = "RetroEnvironment::shutdown" => last.calls[1].data = NullPtr)
    /\ (last.op /= "RetroEnvironment::shutdown" => last.calls[1].data /= NullPtr)

\* get_username went to the host once, with its own selector and a slot to fill, and
\* returned the string the host left there
C29_Witness ==
  /\ last.op = "RetroEnvironment::query" /\ Unwrap(last.arg).name = "get_username"
  /\ Len(last.calls) = 1
  /\ last.calls[1].key = "RETRO_ENVIRONMENT_GET_USERNAME"
  /\ last.calls[1].data = Some([output |-> NullPtr])
  /\ last.ret = Some("/dir")

\* the setter of the slot `fn`, in whichever bridge this is, called with `cb`
SetterCall(fn, cb) ==
  CASE fn = "audio_sample" ->
         RetroInstance_on_set_audio_sample(cb) \/ Instance_on_set_audio_sample(cb)
    [] fn = "audio_sample_batch" ->
         RetroInstance_on_set_audio_sample_batch(cb) \/ Instance_on_set_audio_sample_batch(cb)
    [] fn = "input_poll" ->
         RetroInstance_on_set_input_poll(cb) \/ Instance_on_set_input_poll(cb)
    [] fn = "input_state" ->
         RetroInstance_on_set_input_state(cb) \/ Instance_on_set_input_state(cb)
    [] fn = "video_refresh" ->
         RetroInstance_on_set_video_refresh(cb) \/ Instance_on_set_video_refresh(cb)

\* what C30 says of such a call: it returns, its slot holds `cb`, nothing else moved
SetterAsClaimed(fn, cb) ==
  /\ ~last'.panicked
  /\ SlotNamed(fn)' = cb
  /\ \A other \in FrameCallbacks \ {fn} : SlotNamed(other)' = SlotNamed(other)
  /\ UNCHANGED <<system, environment, cache>>

\* C30: in every state, before set_environment and after deinit included, each of
\* the five callback setters can be called with any callback or with none; it never
\* aborts, overwrites its own slot with the value given, and leaves the core slot,
\* the channel, the other four slots and the cached region / av-info unchanged.
C30_SettersOverwriteOwnSlot ==
  \A fn \in FrameCallbacks, cb \in Opt(Callbacks2) :
    /\ ENABLED (SetterCall(fn, cb) /\ SetterAsClaimed(fn, cb))
    /\ ~ENABLED (SetterCall(fn, cb) /\ ~SetterAsClaimed(fn, cb))

\* a setter was called after deinit, with no channel and no core, and its callback is
\* in the slot
C30_Witness ==
  /\ last.op = "on_set_video_refresh" /\ ~last.panicked
  /\ deinited /\ environment = None /\ system = None
  /\ video_refresh = Some("cb1")
  /\ input_poll = None

\* the region and av-info a single successful RetroCore::load_game answer would cache
WrittenByOneLoad(region, av_info) ==
  \E result \in RetroLoadGameResultsSmall \ {Failure} :
    /\ region = Some(Unwrap(result).region)
    /\ av_info = Some(RetroSystemAvInfo(Unwrap(result).audio, Unwrap(result).video))

\* C31: in RetroInstance, in every reachable state, a cached av-info comes with a
\* cached region, and the two are the region and the audio / video info of one and
\* the same load_game answer.
C31_AvInfoImpliesRegion ==
  (bridge = "RetroInstance" /\ system_av_info /= None) =>
    /\ system_region /= None
    /\ WrittenByOneLoad(system_region, system_av_info)

\* the PAL answer of a load is cached, region and av-info both, and still is after
\* the game has been unloaded
C31_Witness ==
  /\ bridge = "RetroInstance"
  /\ system_region = Some("PAL")
  /\ system_av_info /= None
  /\ Unwrap(system_av_info).video.frame_rate = 50
  /\ last.op = "on_unload_game" /\ ~last.panicked

\* the entry points of Instance that need the core a load has put in the slot
NeedsLoadedCore == {"on_run", "on_unload_game", "on_get_region", "on_get_system_av_info"}

\* C32: Instance::on_load_game and on_load_game_special overwrite the core slot with
\* the outcome of the core's load operation (Some(core) for Success, None for Failure,
\* which is what the default load_game_special always answers) and return true iff
\* the slot is Some afterwards; a Failure drops a core held from an earlier load
\* without a call of its unload_game; and while the slot is empty run, unload_game,
\* get_region and get_system_av_info abort.
C32_InstanceLoadOverwritesCore ==
  [][bridge = "Instance" =>
       /\ (last'.op \in {"on_load_game", "on_load_game_special"} /\ ~last'.panicked) =>
            /\ Len(last'.calls) = 1
            /\ last'.calls[1].fn \in {"Core::load_game", "Core::load_game_special"}
            /\ (last'.calls[1].ret = Some(Failure) => system' = None)
            /\ (last'.calls[1].ret /= Some(Failure) =>
                  system' = Some(Unwrap(Unwrap(last'.calls[1].ret))))
            /\ last'.ret = Some(system' /= None)
       /\ (last'.op \in NeedsLoadedCore /\ system = None) =>
            (last'.panicked /\ system' = None)
    ]_vars

\* a core from a successful load is in the slot, and a load_game_special answered
\* with Failure, as the default answers, returns false and leaves the slot empty
C32_Witness ==
  /\ bridge = "Instance"
  /\ system /= None /\ GameLoaded
  /\ ENABLED (/\ Instance_on_load_game_special(GameInfoSpecial, Core_default.load_game_special)
              /\ ~last'.panicked
              /\ last'.ret = Some(FALSE)
              /\ Len(last'.calls) = 1
              /\ system' = None)

\* what C33 says a call on_set_controller_port_device(port, device) does in the
\* current state, for each bridge
ControllerPortAsClaimed(port, device) ==
  IF bridge = "Instance"
  THEN IF device \in 0..6 /\ port \in 0..255
       THEN IF environment = None \/ system = None
            THEN last'.panicked
            ELSE /\ ~last'.panicked
                 /\ Len(last'.calls) = 1
                 /\ last'.calls[1].fn = "Core::set_controller_port_device"
                 /\ last'.calls[1].data = Some(<<port, device>>)
       ELSE ~last'.panicked /\ last'.calls = <<>>
  ELSE device > 6 => last'.panicked

\* C33: Instance::on_set_controller_port_device forwards to the core exactly when the
\* device code is in 0..=6 and the port in 0..=255; for any other device code or port
\* it returns normally without a call of the core, whether or not a channel or a core
\* exists; with valid arguments and no core or no channel it aborts.
\* RetroInstance::on_set_controller_port_device aborts for any device code above 6.
C33_ControllerPortForwarding ==
  \A port \in {0, 1, 255, 256, 257}, device \in 0..8 :
    /\ ENABLED (/\ \/ RetroInstance_on_set_controller_port_device(port, device)
                   \/ Instance_on_set_controller_port_device(port, device)
                /\ ControllerPortAsClaimed(port, device))
    /\ ~ENABLED (/\ \/ RetroInstance_on_set_controller_port_device(port, device)
                    \/ Instance_on_set_controller_port_device(port, device)
                 /\ ~ControllerPortAsClaimed(port, device))

\* Instance with no channel and no core was called with a device code above 6 or a
\* port above 255, and returned without a call of the core
C33_Witness ==
  /\ bridge = "Instance"
  /\ environment = None /\ system = None
  /\ last.op = "on_set_controller_port_device"
  /\ ~last.panicked /\ last.calls = <<>>

\* two memory ids (MemoryType wraps a u32) and what a core may hold for each: no region,
\* or a region of a given length (an empty one included)
MemoryIds == {0, 2}
CoreMemories == [MemoryIds -> Opt(Sizes)]

\* C34: in Instance, for every memory id and every state of the core,
\* on_get_memory_size(id) is the length of the region Core::get_memory_data(id)
\* returns and 0 when the core returns no region; so whenever on_get_memory_data(id)
\* returns a null pointer, on_get_memory_size(id) called in the same state returns 0.
C34_MemorySizeIsRegionLength ==
  (bridge = "Instance" /\ environment /= None /\ system /= None) =>
    \A mem \in CoreMemories, id \in MemoryIds :
      /\ ENABLED (/\ Instance_on_get_memory_size(mem[id])
                  /\ ~last'.panicked
                  /\ last'.calls[1].fn = "Core::get_memory_data"
                  /\ last'.ret = Some(IF mem[id] = None THEN 0 ELSE Unwrap(mem[id])))
      /\ ~ENABLED (/\ Instance_on_get_memory_size(mem[id])
                   /\ last'.ret /= Some(IF mem[id] = None THEN 0 ELSE Unwrap(mem[id])))
      /\ ENABLED (Instance_on_get_memory_data(mem[id]) /\ last'.ret = Some("null")) =>
           /\ mem[id] = None
           /\ ~ENABLED (Instance_on_get_memory_size(mem[id]) /\ last'.ret /= Some(0))

\* the core answered get_memory_data with no region and on_get_memory_size returned 0,
\* in a state where on_get_memory_data for the same answer returns a null pointer
C34_Witness ==
  /\ bridge = "Instance"
  /\ last.op = "on_get_memory_size" /\ ~last.panicked
  /\ last.calls[1].ret = Some(None)
  /\ last.ret = Some(0)
  /\ ENABLED (Instance_on_get_memory_data(None) /\ last'.ret = Some("null"))

\* the case of the conversion that took the record of the last conversion call
CaseTaken ==
  IF last.op = "RetroGame::from"
  THEN RetroGame_from(Unwrap(last.arg)).variant
  ELSE Game_from(Unwrap(last.arg)).variant

\* C35: each of the four null / non-null combinations of (path, data) is taken by one
\* of the three cases of the conversion, in lib.rs and in retro/mod.rs alike: both
\* null is None, a non-null data is Data whether or not a path comes with it, a path
\* with null data is Path.  With both non-null the conversion returns the Data
\* variant with the bytes of the buffer and without the path.  The `unreachable!`
\* after the three cases of lib.rs is executed for no record: an abort, where there
\* is one, is the unwrap of the path string inside the Path case.
C35_ConversionCoversAllCombinations ==
  GameConverted =>
    LET game == Unwrap(last.arg)
    IN  /\ CaseTaken \in {"None", "Data", "Path"}
        /\ CaseTaken = (IF game.path = NullPtr /\ game.data = NullPtr THEN "None"
                        ELSE IF game.data /= NullPtr THEN "Data"
                        ELSE "Path")
        /\ (game.path /= NullPtr /\ game.data /= NullPtr) =>
             /\ ~last.panicked
             /\ Unwrap(last.ret).variant = "Data"
             /\ SameBytes(Unwrap(Unwrap(last.ret).data), Unwrap(game.data), game.size)
             /\ Unwrap(last.ret).path = None
        /\ last.panicked =>
             /\ last.op = "RetroGame::from"
             /\ CaseTaken = "Path"
             /\ ~Unwrap(game.path).utf8
        /\ ~last.panicked => Unwrap(last.ret).variant = CaseTaken

\* RetroGame::from was given a record with a path and a 4-byte buffer, both non-null,
\* and returned the Data variant with the four bytes and no path
C35_Witness ==
  /\ last.op = "RetroGame::from" /\ ~last.panicked
  /\ Unwrap(last.arg).path = PtrTo(CStr("/rom", TRUE))
  /\ Unwrap(last.arg).data = PtrTo(<<1, 2, 3, 4>>)
  /\ Unwrap(last.ret).variant = "Data"
  /\ Unwrap(last.ret).data = Some(<<1, 2, 3, 4>>)
  /\ Unwrap(last.ret).path = None

====
